---------------------------- MODULE Spec2Model ----------------------------
(***************************************************************************)
(* A model of the flux code generator of gordon-go: the index node's and   *)
(* the loop node's type re-derivation (flux/index.go, flux/loop.go) and    *)
(* the writer that turns a block graph into Go text (flux/writer.go).      *)
(*                                                                         *)
(* Types are tuples whose first element is the Go type's dynamic class:    *)
(*   <<"basic", name>>  <<"named", name, underlying>>  <<"ptr", elem>>     *)
(*   <<"array", elem, len>>  <<"slice", elem>>  <<"map", key, elem>>       *)
(*   <<"chan", elem, dir>>  <<"func">>  <<"generic">>  <<"seq">>  <<"nil">> *)
(***************************************************************************)
EXTENDS Naturals, Sequences, FiniteSets, TLC

VARIABLES
    \* ---- index node (flux/index.go) ----
    ix,         \* the indexNode: set, addressable, ok, outs, xT, keyT, valT
    ixConn,     \* the sources connected to x, key, inVal ("none", "nilsrc" or a type)
    ixOkConns,  \* the connections whose source is the ok output, as ids
    ixBlkConns, \* the connections held by the node's block, as ids
    ixStmt,     \* the statement writer.block last emitted for the node
    \* ---- loop node (flux/loop.go) ----
    lp,         \* the loopNode: the type last passed to updateInputType, len(inputsNode.outs)
    lpHist,     \* the changes made to the loop input's connection, with len(outs) after each
    \* ---- a function's graph and its generation (flux/writer.go) ----
    nin,        \* the number of inputs of each call node of the function block
    conns,      \* the connections of the function block
    localVars,  \* the names of the function block's local variables
    gen,        \* 1 when the function was generated since the last change of the graph
    out,        \* the writer at the end of the last generation
    \* ---- a loop node and its header (flux/writer.go) ----
    lh,         \* the loopNode: input type, len(inputsNode.outs), which binding outputs are connected
    lhOut,      \* the last generation of the loop's header, with the graph it was made from
    lhPrev,     \* the generation before the last: which bindings were connected, the key's name
    \* ---- one node of a block and its statement (flux/writer.go) ----
    nd,         \* the node: its variant, the state of each input, whether its output is connected
    ndOut,      \* what writer.block last did for the node
    \* ---- sequence connections and their annotations (flux/writer.go) ----
    sg,         \* the block: its sequence connections, the nodes that call an unconnected value
    sgOut,      \* the annotations of the last generation, with the graph it was made from
    \* ---- a connection and its two handles (flux/connectionHandle.go) ----
    ch,         \* the connection's ends, the handles' editing flags, the keyboard focus
    \* ---- typemap (flux/go/types/typemap/typemap.go) ----
    hs,         \* two types and, once Hash was called on them, their hashes
    tm,         \* a typemap.M: receiver, table, length, fault, the last call and its result
    it,         \* the Iterate in progress on it
    \* ---- geometry (unnamed/part_003) ----
    geo,        \* the operands of a geometry call and, once it was made, its result
    \* ---- the name allocator and the file path (flux/writer.go) ----
    na,         \* w.names, the calls of name made so far and the call in progress
    fp,         \* the definitions of a package and the files they were saved in
    \* ---- the node browser (unnamed/part_000) and the view tree (unnamed/part_001) ----
    br,         \* the browser's finished flag, its input state and the signals emitted
    vt          \* each view's parent and list of children

ixVars == <<ix, ixConn, ixOkConns, ixBlkConns, ixStmt>>
lpVars == <<lp, lpHist>>
emVars == <<nin, conns, localVars, gen, out>>
lhVars == <<lh, lhOut, lhPrev>>
ndVars == <<nd, ndOut>>
sgVars == <<sg, sgOut>>
chVars == <<ch>>
hsVars == <<hs>>
tmVars == <<tm, it>>
geoVars == <<geo>>
naVars == <<na>>
fpVars == <<fp>>
brVars == <<br>>
vtVars == <<vt>>
moreVars == <<lhVars, ndVars, sgVars, chVars, hsVars, tmVars, geoVars, naVars, fpVars,
             brVars, vtVars>>
vars == <<ix, ixConn, ixOkConns, ixBlkConns, ixStmt, lp, lpHist,
          nin, conns, localVars, gen, out, lh, lhOut, lhPrev, nd, ndOut,
          sg, sgOut, ch, hs, tm, it, geo, na, fp, br, vt>>

---------------------------------------------------------------------------
(* Types *)

TInt == <<"basic", "int">>
TBool == <<"basic", "bool">>
TString == <<"basic", "string">>
generic == <<"generic">>
NilType == <<"nil">>

\* types.ChanDir
SendRecv == 0
SendOnly == 1
RecvOnly == 2

Pointer(t) == <<"ptr", t>>
Array(t) == <<"array", t, 2>>
Slice(t) == <<"slice", t>>
Map(k, e) == <<"map", k, e>>
Chan(t) == <<"chan", t, SendRecv>>
Named(n, u) == <<"named", n, u>>
Tuple(ts) == <<"tuple", ts>>
Sig(v, ps, rs) == <<"sig", v, Tuple(ps), Tuple(rs)>>
Field(n, a, g, t) == [name |-> n, anon |-> a, tag |-> g, type |-> t]
Method(n, t) == [name |-> n, type |-> t]

Kind(t) == t[1]

\* indirect(t): the pointee and true for a pointer type, t and false otherwise
indirect(t) == IF Kind(t) = "ptr" THEN <<t[2], TRUE>> ELSE <<t, FALSE>>

\* the underlying type of a named type, the type itself otherwise
underlying(t) == IF Kind(t) = "named" THEN t[3] ELSE t


\* assignable(src, dst): a value of type src may be assigned to a destination
\* of type dst as it stands (identical types, or an untyped destination)
assignable(s, d) == s = d \/ d = generic \/ d = NilType

---------------------------------------------------------------------------
(* Bounds *)

MaxOkConns == 2     \* connections drawn from one output port
MaxHist == 3        \* connection changes made to a loop input
MaxConns == 3       \* connections in the function block

\* the nodes of the function block: its inputsNode (node 0) and three call nodes
CallNodes == {1, 2, 3}
Nodes == {0} \cup CallNodes

\* no generation has run
NoOut == [src |-> <<>>]

EmitterIdle ==
    /\ nin = [n \in CallNodes |-> 0]
    /\ conns = {}
    /\ localVars = {}
    /\ gen = 0
    /\ out = NoOut

\* no loop header has been generated
NoGraph == [t |-> <<"none">>, nouts |-> 1, keyConn |-> FALSE, valConn |-> FALSE, taken |-> {}]
NoHeader == [g |-> NoGraph, names |-> <<>>, key |-> "", val |-> "", lines |-> <<>>]
NoPrev == [both |-> FALSE, key |-> ""]

LoopHeaderIdle ==
    /\ lh = [t |-> <<"nil">>, nouts |-> 1, keyConn |-> FALSE, valConn |-> FALSE, taken |-> {}]
    /\ lhOut = NoHeader
    /\ lhPrev = NoPrev

\* no node has been emitted
NoNode == [kind |-> "none", ins |-> <<>>, outConn |-> FALSE]
NoVariant == [n |-> NoNode, fault |-> FALSE, args |-> <<>>, resolved |-> <<>>,
              used |-> <<>>, written |-> FALSE]

VariantIdle == nd = NoNode /\ ndOut = NoVariant

\* no annotation has been generated
NoAnnotations == [g |-> [conns |-> {}, unbound |-> {0}], ann |-> <<>>]

SeqIdle == sg = [conns |-> {}, unbound |-> {}] /\ sgOut = NoAnnotations

\* no connection is being edited
HandlesIdle ==
    ch = [src |-> 1, dst |-> 1, inBlk |-> TRUE,
          editing |-> [h \in {"s", "d"} |-> FALSE], saved |-> [h \in {"s", "d"} |-> 0],
          focus |-> "blk", held |-> [h \in {"s", "d"} |-> 0], setFirst |-> FALSE]

\* no type is being hashed
HashIdle ==
    hs = [t |-> <<"basic", "int">>, u |-> <<"basic", "int">>, addr |-> <<>>, done |-> TRUE,
          fault |-> FALSE, ht |-> <<0, 2>>, hu |-> <<0, 2>>]

\* no typemap is in use
TypeMapIdle == tm = <<>> /\ it = <<>>

\* no point is being tested
GeoIdle == geo = <<>>

\* no call of name is in progress and no path was asked for
NameIdle == na = <<>>
PathIdle == fp = <<>>
BrowserIdle == br = <<>>
TreeIdle == vt = <<>>

MoreIdle ==
    LoopHeaderIdle /\ VariantIdle /\ SeqIdle /\ HandlesIdle /\ HashIdle /\ TypeMapIdle /\ GeoIdle
    /\ NameIdle /\ PathIdle /\ BrowserIdle /\ TreeIdle

---------------------------------------------------------------------------
(* writer: the name allocator (flux/writer.go) *)

\* types.Universe.Names(): the predeclared identifiers the model's text can meet
UniverseNames == <<"bool", "int", "string", "nil", "true", "false", "len">>

RECURSIVE nameRec(_, _)
nameRec(names, s) ==
    LET s1 == IF s = "" \/ s = "_" THEN "x" ELSE s IN
    IF s1 \in DOMAIN names
    THEN nameRec([names EXCEPT ![s1] = @ + 1], s1 \o ToString(names[s1]))
    ELSE [names |-> names @@ (s1 :> 2), r |-> s1]

\* a plausible slip: the suffixed candidate is returned without the recursive check
nameNoRecheck(names, s) ==
    LET s1 == IF s = "" \/ s = "_" THEN "x" ELSE s IN
    IF s1 \in DOMAIN names
    THEN [names |-> [names EXCEPT ![s1] = @ + 1], r |-> s1 \o ToString(names[s1])]
    ELSE [names |-> names @@ (s1 :> 2), r |-> s1]

\* writer.name(s): [names |-> the updated w.names, r |-> the identifier returned]
name(names, s) == nameRec(names, s)

RECURSIVE seedNames(_, _)
seedNames(names, seeds) ==
    IF seeds = <<>> THEN names
    ELSE seedNames(name(names, Head(seeds)).names, Tail(seeds))

EmptyNames == [s \in {} |-> 0]

RECURSIVE Join(_, _)
Join(ss, sep) ==
    IF ss = <<>> THEN ""
    ELSE IF Len(ss) = 1 THEN ss[1]
    ELSE ss[1] \o sep \o Join(Tail(ss), sep)

---------------------------------------------------------------------------
(* The index node (flux/index.go) *)

NoConn == <<"none">>       \* len(p.conns) = 0
NilSrc == <<"nilsrc">>     \* a connection whose src is nil (its source end is being dragged)

\* the types a container, key or value source can have
IndexSrcTypes ==
    { TInt, TString,
      Slice(TInt), Pointer(Slice(TInt)), Named("S", Slice(TInt)),
      Array(TInt), Pointer(Array(TInt)), Named("A", Array(TInt)),
      Pointer(Named("A", Array(TInt))), Named("PA", Pointer(Array(TInt))),
      Map(TString, TInt), Pointer(Map(TString, TInt)), Named("M", Map(TString, TInt)),
      Map(TString, Pointer(TInt)), Slice(Pointer(TInt)) }
KeySrcTypes == { TInt, TString }

hasSrc(c) == c # NoConn /\ c # NilSrc

\* index.go 39-87: the container, key and element types and the addressable flag
deriveIndexTypes(set, c) ==
    IF c.x # NoConn THEN
        IF c.x # NilSrc THEN
            LET p == c.x
                t == indirect(p)[1]
                ptr == indirect(p)[2]
                u == IF Kind(t) = "named" THEN t[3] ELSE t
            IN  CASE Kind(u) = "array" ->
                       IF ptr /\ ~set
                       THEN [t |-> p, key |-> TInt, elt |-> Pointer(u[2]), addressable |-> TRUE]
                       ELSE [t |-> t, key |-> TInt, elt |-> u[2], addressable |-> FALSE]
                  [] Kind(u) = "slice" ->
                       IF ~set
                       THEN [t |-> t, key |-> TInt, elt |-> Pointer(u[2]), addressable |-> TRUE]
                       ELSE [t |-> t, key |-> TInt, elt |-> u[2], addressable |-> FALSE]
                  [] Kind(u) = "map" ->
                       [t |-> t, key |-> u[2], elt |-> u[3], addressable |-> FALSE]
                  [] OTHER ->
                       [t |-> t, key |-> TInt, elt |-> generic, addressable |-> FALSE]
        ELSE [t |-> generic, key |-> generic, elt |-> generic, addressable |-> FALSE]
    ELSE [t |-> generic,
          key |-> IF hasSrc(c.key) THEN c.key ELSE generic,
          elt |-> IF set /\ hasSrc(c.inVal) THEN c.inVal ELSE generic,
          addressable |-> FALSE]

\* a plausible slip: an array is taken to be addressable whether or not it is
\* reached through a pointer
deriveIndexTypesArrayAlways(set, c) ==
    LET d == deriveIndexTypes(set, c)
        u == IF hasSrc(c.x) THEN underlying(indirect(c.x)[1]) ELSE generic
    IN  IF Kind(u) = "array" /\ ~set
        THEN [d EXCEPT !.elt = Pointer(u[2]), !.addressable = TRUE]
        ELSE d

\* a plausible slip: the key defaults to int whether or not the container is connected
deriveIndexTypesKeyInt(set, c) ==
    LET d == deriveIndexTypes(set, c)
    IN  IF d.key = generic THEN [d EXCEPT !.key = TInt] ELSE d

indexTypes(set, c) == deriveIndexTypes(set, c)

\* index.go 89-105: whether the node has the ok output after the update
okAfter(n, t) == IF ~n.set THEN Kind(t) = "map" ELSE n.ok

\* a plausible slip: the `if !n.set` guard is missing
okAfterUnguarded(n, t) == Kind(t) = "map"

okPort(n, t) == okAfter(n, t)

\* indexNode.updateInputType: the node after the update
updateInputType(n, c) ==
    LET d == indexTypes(n.set, c)
        ok == okPort(n, d.t)
    IN  [set |-> n.set, addressable |-> d.addressable, ok |-> ok,
         nouts |-> IF ok /\ ~n.ok THEN n.nouts + 1
                   ELSE IF n.ok /\ ~ok THEN 1 ELSE n.nouts,
         xT |-> d.t, keyT |-> d.key, valT |-> d.elt]

\* index.go 93-95: the ok output's connections are removed from the block when
\* the port is dropped
okConnsAfter(n, n2, okc) == IF n.ok /\ ~n2.ok THEN {} ELSE okc
blkConnsAfter(n, n2, okc, blkc) == IF n.ok /\ ~n2.ok THEN blkc \ okc ELSE blkc

NoConns == [x |-> NoConn, key |-> NoConn, inVal |-> NoConn]

\* newIndexNode(set)
newIndexNode(set) ==
    updateInputType([set |-> set, addressable |-> FALSE, ok |-> FALSE,
                     nouts |-> IF set THEN 0 ELSE 1,
                     xT |-> NilType, keyT |-> NilType, valT |-> NilType], NoConns)

\* writer.block, case *indexNode (317-326): the statement written before
\* w.seq(n) ends the line, "" when none is written
indexStmt(n, args, results) ==
    IF n.set THEN args[1] \o "[" \o args[2] \o "] = " \o args[3]
    ELSE IF Len(results) > 0
    THEN Join(results, ", ") \o " := " \o (IF n.addressable THEN "&" ELSE "")
         \o args[1] \o "[" \o args[2] \o "]"
    ELSE ""

\* a connection change on port f of the node, followed by the connsChanged callback
IndexChange(f, c) ==
    LET c2 == [ixConn EXCEPT ![f] = c]
        n2 == updateInputType(ix, c2)
    IN  /\ ixConn' = c2
        /\ ix' = n2
        /\ ixOkConns' = okConnsAfter(ix, n2, ixOkConns)
        /\ ixBlkConns' = blkConnsAfter(ix, n2, ixOkConns, ixBlkConns)
        /\ ixStmt' = <<>>
        /\ UNCHANGED <<lpVars, emVars, moreVars>>

ConnectX == \E t \in IndexSrcTypes \cup {NilSrc} : t # ixConn.x /\ IndexChange("x", t)
DisconnectX == ixConn.x # NoConn /\ IndexChange("x", NoConn)
ConnectKey == \E t \in KeySrcTypes : t # ixConn.key /\ IndexChange("key", t)
DisconnectKey == ixConn.key # NoConn /\ IndexChange("key", NoConn)
ConnectInVal == ix.set /\ \E t \in KeySrcTypes : t # ixConn.inVal /\ IndexChange("inVal", t)
DisconnectInVal == ix.set /\ ixConn.inVal # NoConn /\ IndexChange("inVal", NoConn)

\* a consumer is connected to the ok output
ConnectOk ==
    /\ ix.ok
    /\ Cardinality(ixOkConns) < MaxOkConns
    /\ \E id \in 1..MaxOkConns :
          /\ id \notin ixOkConns
          /\ ixOkConns' = ixOkConns \cup {id}
          /\ ixBlkConns' = ixBlkConns \cup {id}
    /\ UNCHANGED <<ix, ixConn, ixStmt>>
    /\ UNCHANGED <<lpVars, emVars, moreVars>>

LoopIdle == lp = [t |-> NilType, nouts |-> 1] /\ lpHist = <<>>

InitIndex ==
    /\ \E set \in BOOLEAN : ix = newIndexNode(set)
    /\ ixConn = NoConns
    /\ ixOkConns = {}
    /\ ixBlkConns = {}
    /\ ixStmt = <<>>
    /\ LoopIdle
    /\ EmitterIdle
    /\ MoreIdle

---------------------------------------------------------------------------
(* The loop node (flux/loop.go) *)

\* the types a loop input's source can have; in this version of the type model a
\* predeclared type such as int is a *NamedType
LoopSrcTypes ==
    { Named("int", TInt), Named("T", Slice(TInt)),
      Array(TInt), Slice(TInt), Map(TString, TInt), Chan(TInt),
      Pointer(Array(TInt)), <<"func">> }

\* loopNode.updateInputType(t): len(inputsNode.outs) after the call, t = NilType for nil
loopUpdateInputType(nouts, t) ==
    CASE Kind(t) \in {"nil", "named", "chan"} -> IF nouts = 2 THEN 1 ELSE nouts
      [] Kind(t) \in {"array", "slice", "map"} -> IF nouts = 1 THEN 2 ELSE nouts
      [] OTHER -> nouts

\* n.input.connsChanged (loop.go 23-29): c is the input's connection after the change
loopConnsChanged(n, c) ==
    IF c # NoConn
    THEN IF c # NilSrc
         THEN [t |-> c, nouts |-> loopUpdateInputType(n.nouts, c)]
         ELSE n
    ELSE [t |-> NilType, nouts |-> loopUpdateInputType(n.nouts, NilType)]

\* newLoopNode: one output on the inputsNode, then updateInputType(nil)
newLoopNode == [t |-> NilType, nouts |-> loopUpdateInputType(1, NilType)]

LoopChange(c) ==
    /\ Len(lpHist) < MaxHist
    /\ lp' = loopConnsChanged(lp, c)
    /\ lpHist' = Append(lpHist, [c |-> c, nouts |-> lp'.nouts])
    /\ UNCHANGED <<ixVars, emVars, moreVars>>

LoopConnect == \E t \in LoopSrcTypes \cup {NilSrc} : LoopChange(t)
LoopDisconnect == lpHist # <<>> /\ lpHist[Len(lpHist)].c # NoConn /\ LoopChange(NoConn)

IndexIdle ==
    /\ ix = newIndexNode(FALSE)
    /\ ixConn = NoConns
    /\ ixOkConns = {}
    /\ ixBlkConns = {}
    /\ ixStmt = <<>>

InitLoop ==
    /\ lp = newLoopNode
    /\ lpHist = <<>>
    /\ IndexIdle
    /\ EmitterIdle
    /\ MoreIdle

NextLoop ==
    \/ LoopConnect
    \/ LoopDisconnect

SpecLoop == InitLoop /\ [][NextLoop]_vars

---------------------------------------------------------------------------
(* Claims about the index node, checked under SpecIndex *)

\* a slice (or a pointer to one), or an array reached through a pointer
AddressableContainer(c) ==
    /\ hasSrc(c)
    /\ LET u == underlying(indirect(c)[1])
       IN  Kind(u) = "slice" \/ (Kind(u) = "array" /\ indirect(c)[2])

SequenceContainer(c) ==
    hasSrc(c) /\ Kind(underlying(indirect(c)[1])) \in {"slice", "array"}

ElemOf(c) == underlying(indirect(c)[1])[2]

\* C7: after every re-derivation of an index node the addressable flag is set,
\* and the value output is a pointer to the container's element type, exactly
\* when the node is in read mode and its container input is connected to an
\* addressable slice/array container; with the container disconnected the flag
\* is clear and the output is not pointer-typed; and the emitted read carries
\* the address-of operator exactly when the flag is set.
C7_AddressabilityPropagation ==
    LET addr == ~ix.set /\ AddressableContainer(ixConn.x) IN
    /\ ix.addressable <=> addr
    /\ (~ix.set /\ SequenceContainer(ixConn.x))
          => ((ix.valT = Pointer(ElemOf(ixConn.x))) <=> addr)
    /\ ixConn.x = NoConn => (~ix.addressable /\ (~ix.set => Kind(ix.valT) # "ptr"))
    /\ (ixStmt # <<>> /\ ~ixStmt.fault /\ ~ix.set) =>
          ixStmt.lines[ixStmt.stmt] =
              IF ixStmt.results = <<>> THEN ""
              ELSE Join(ixStmt.results, ", ") \o " := " \o (IF addr THEN "&" ELSE "")
                   \o ixStmt.args[1] \o "[" \o ixStmt.args[2] \o "]"

\* a read of an array reached through a pointer has been emitted with its address taken
C7_Witness ==
    /\ ~ix.set
    /\ ixConn.x = Pointer(Array(TInt))
    /\ ix.addressable
    /\ ix.valT = Pointer(TInt)
    /\ ixStmt # <<>>
    /\ ixStmt.lines = <<"x := &a[k]", "d = x">>

\* C8: an index node created in write mode never has an output port, whatever
\* is connected to its container, key and value inputs.
C8_WriteModeNoOutput == ix.set => (ix.nouts = 0 /\ ~ix.ok)

\* a write-mode node whose container is a map and whose value input is connected
C8_Witness ==
    /\ ix.set
    /\ ixConn.x = Map(TString, TInt)
    /\ hasSrc(ixConn.inVal)
    /\ ix.keyT = TString
    /\ ixStmt # <<>>
    /\ ixStmt.lines = <<"a[k] = e">>

\* the container is treated as a map for key/value typing (index.go 63-64)
MapContainer(c) == hasSrc(c) /\ Kind(underlying(indirect(c)[1])) = "map"

\* C9: a read-mode index node has the presence output ok if and only if its
\* container input's resolved type is a map, named map types and pointers to
\* maps included; it then has exactly two outputs, otherwise exactly one.
C9_PresenceOutputIffMap ==
    ~ix.set => /\ ix.ok <=> MapContainer(ixConn.x)
               /\ ix.nouts = IF MapContainer(ixConn.x) THEN 2 ELSE 1

---------------------------------------------------------------------------
(* Claims about the loop node, checked under SpecLoop *)

\* the input's connection after the last change
LoopCur == IF lpHist = <<>> THEN NoConn ELSE lpHist[Len(lpHist)].c

\* C10 as stated: two binding outputs exactly when the current input type is an
\* array, slice, map or channel, one otherwise, whatever came before.
C10_OutputsByCurrentType ==
    lp.nouts = IF hasSrc(LoopCur) /\ Kind(LoopCur) \in {"array", "slice", "map", "chan"}
               THEN 2 ELSE 1

---------------------------------------------------------------------------
(* The graph of one function: the function block holds the inputsNode (node *)
(* 0, whose output 1 is the function's parameter) and the call nodes 1, 2  *)
(* and 3, each with nin[n] inputs, one output and the sequence ports (port *)
(* 0).  A port is <<node, index>>.                                         *)

DataConn(s, d) == [src |-> <<s, 1>>, dst |-> <<d, 1>>, seq |-> FALSE]
SeqConn(s, d) == [src |-> <<s, 0>>, dst |-> <<d, 0>>, seq |-> TRUE]

srcNode(c) == c.src[1]
dstNode(c) == c.dst[1]

\* the name of a node's output (p.obj.GetName()): the parameter a, the unnamed
\* results of the functions called by nodes 1 and 2, the result v of node 3's
ParamName == "a"
OutName(n) == IF n = 0 THEN ParamName ELSE IF n >= 3 THEN "v" ELSE ""

\* the packages of the called functions; node 1 calls a function of the
\* package being written
ThisPkg == [name |-> "main", path |-> "main"]
FmtPkg == [name |-> "fmt", path |-> "fmt"]
OsPkg == [name |-> "os", path |-> "os"]
CallObj(n) ==
    IF n = 1 THEN [name |-> "f", pkg |-> ThisPkg]
    ELSE IF n = 2 THEN [name |-> "Sprint", pkg |-> FmtPkg]
    ELSE [name |-> "Getenv", pkg |-> OsPkg]

\* f.pkgRefs: the packages the function's nodes refer to
pkgRefs == <<FmtPkg, OsPkg>>

\* A second graph, with a nested scope: its function block holds the
\* inputsNode 0, the call node 1 and an if node; the if node's one branch
\* block holds the call node 5 and the convert node 6, a conversion to int
\* of its one input.  The if node's condition is unconnected.
IfNode == 4
ConvertNode == 6
InnerNodes == {5, ConvertNode}
ScopeCalls == {1} \cup InnerNodes

\* the case of writer.block's switch (253-386) a node of the order takes
NodeKind(n) ==
    IF n = 0 THEN "ports" ELSE IF n = ConvertNode THEN "convert" ELSE "call"

\* p.obj.Type of a node's output and of its input: the function node 5 calls
\* returns a pointer to int, every other port is an int
OutType(n) == IF n = 5 THEN Pointer(TInt) ELSE TInt
InType(n) == TInt

\* *n.typ.typ of the convert node
ConvertType == TInt

\* c.hidden and c.src.conntxt.GetText(): a connection from the parameter to
\* node 5 is drawn hidden, its source end labelled t
hidden(c) == ~c.seq /\ srcNode(c) = 0 /\ dstNode(c) = 5
ConnText(c) == "t"

\* n.block(): the block a node is in, "F" the function block and "B" the branch
blockOf(n) == IF n \in InnerNodes THEN "B" ELSE "F"

\* the block whose conns hold a connection: the innermost block that encloses
\* both of its ends
connBlock(c) ==
    IF blockOf(srcNode(c)) = blockOf(dstNode(c)) THEN blockOf(srcNode(c)) ELSE "F"

\* w.pkg.Scope().Names(): the package-level names visible at generation start
PkgScopeNames == <<"main", "f", "x">>

\* A Go map is ranged over in an order that is not specified, and that is
\* chosen anew for every range statement.  The model keeps a map as the
\* sequence of its entries; a range over it visits them in the order of a
\* permutation p of their indices, any one for each range of a generation.
Reverse(q) == [i \in 1..Len(q) |-> q[Len(q) + 1 - i]]

\* the permutations of 1..k
RECURSIVE Perms(_)
Perms(k) ==
    IF k = 0 THEN {<<>>}
    ELSE UNION {{SubSeq(q, 1, i - 1) \o <<k>> \o SubSeq(q, i, k - 1) : i \in 1..k}
                   : q \in Perms(k - 1)}

\* F(v), the value v worked out once, before F
With(v, F(_)) == CHOOSE res \in {F(val) : val \in {v}} : TRUE

\* the indices 1..n in the order p visits them; an index p does not list is
\* visited after those it lists
RangeIndex(n, p) ==
    LET known == SelectSeq(p, LAMBDA i : i <= n)
    IN  known \o [j \in 1..(n - Len(known)) |-> Len(known) + j]

\* the entries of q in the order p visits them
Range(q, p) ==
    With(q, LAMBDA s : [j \in 1..Len(s) |-> s[RangeIndex(Len(s), p)[j]]])

\* A generation ranges over f.pkgRefs (saveFunc 66), over w.pkgNames
\* (imports 136), over b.localVars (block 215) and b.conns (block 218) of every
\* block, and over the map existing (assignExisting 556) of every node.  The
\* orders of one generation are a record of one permutation for each of these
\* ranges, each chosen independently of the others.
orderOf(f, k) == IF k \in DOMAIN f THEN f[k] ELSE <<>>

\* a permutation of 1..size[k] for every key k
RECURSIVE PermsFor(_)
PermsFor(size) ==
    IF DOMAIN size = {} THEN {<<>>}
    ELSE LET k == CHOOSE x \in DOMAIN size : TRUE
             rest == PermsFor([x \in DOMAIN size \ {k} |-> size[x]])
         IN  {(k :> q) @@ f : q \in Perms(size[k]), f \in rest}


Elems(q) == {q[i] : i \in 1..Len(q)}

\* the connections of a set, listed by destination, then source
ConnKey(c) == (IF c.seq THEN 100 ELSE 0) + 10 * c.dst[1] + c.src[1]
RECURSIVE ConnSeq(_)
ConnSeq(S) ==
    IF S = {} THEN <<>>
    ELSE LET c == CHOOSE x \in S : \A y \in S : ConnKey(x) <= ConnKey(y)
         IN  <<c>> \o ConnSeq(S \ {c})

\* p.conns for an output or sequence-out port, and for an input or sequence-in port
connsFrom(cs, p) == ConnSeq({c \in cs : c.src = p /\ c.seq = (p[2] = 0)})
connsTo(cs, p) == ConnSeq({c \in cs : c.dst = p /\ c.seq = (p[2] = 0)})

\* the orders a generation of the graph with connections cs and local
\* variables lv may range over its maps in
RangeOrders(cs, lv) ==
    LET blocks == {connBlock(c) : c \in cs}
        srcs == {srcNode(c) : c \in {c \in cs : ~c.seq}}
        cOrd == PermsFor([b \in blocks |-> Cardinality({c \in cs : connBlock(c) = b})])
        aOrd == PermsFor([n \in srcs |-> Len(connsFrom(cs, <<n, 1>>))])
    IN  {[pkgs |-> a, imps |-> b, locals |-> l, conns |-> c, assign |-> e] :
            a \in Perms(Len(pkgRefs)), b \in Perms(Len(pkgRefs)),
            l \in Perms(Cardinality(lv)), c \in cOrd, e \in aOrd}

\* a map kept as a sequence of <<key, value>> entries
MapHas(m, k) == \E i \in 1..Len(m) : m[i][1] = k
MapGet(m, k, dflt) ==
    IF MapHas(m, k) THEN m[CHOOSE i \in 1..Len(m) : m[i][1] = k][2] ELSE dflt
MapPut(m, k, v) ==
    IF MapHas(m, k)
    THEN [i \in 1..Len(m) |-> IF m[i][1] = k THEN <<k, v>> ELSE m[i]]
    ELSE Append(m, <<k, v>>)

---------------------------------------------------------------------------
(* block.nodeOrder: the scheduler *)

\* the nodes of the block that n depends on: the sources of its data and
\* sequence connections
deps(cs, n) == {srcNode(c) : c \in {c \in cs : dstNode(c) = n}}

Min(S) == CHOOSE x \in S : \A y \in S : x <= y

RECURSIVE schedule(_, _, _)
schedule(cs, placed, rest) ==
    LET ready == {n \in rest : deps(cs, n) \subseteq Elems(placed)} IN
    IF ready = {} THEN placed
    ELSE schedule(cs, Append(placed, Min(ready)), rest \ {Min(ready)})

\* a plausible slip: the nodes in creation order, whatever they depend on
RECURSIVE creationOrder(_, _, _)
creationOrder(cs, placed, rest) ==
    IF rest = {} THEN placed
    ELSE creationOrder(cs, Append(placed, Min(rest)), rest \ {Min(rest)})

\* order: a topological order of the block's nodes, ties broken by creation
\* order, as far as one exists; ok: whether every node is in it (no cycle)
topoOrder(cs, placed, rest) == schedule(cs, placed, rest)

nodeOrder(cs) ==
    LET o == topoOrder(cs, <<>>, Nodes)
    IN  [order |-> o, ok |-> Len(o) = Cardinality(Nodes)]

---------------------------------------------------------------------------
(* The writer (flux/writer.go).  Besides the fields of the Go struct the    *)
(* record keeps what the generation did, for the claims to refer to: the   *)
(* seeded names, the identifiers name() returned, the identifiers the text *)
(* declares, the statement emitted for each node and the order walked.     *)

InPort(pt) == <<"in", pt[1], pt[2]>>
OutPort(pt) == <<"out", pt[1], pt[2]>>

RECURSIVE Tabs(_)
Tabs(n) == IF n = 0 THEN "" ELSE "\t" \o Tabs(n - 1)

\* the names newWriter passes through name(): the universe's and the package scope's
SeededNames == seedNames(EmptyNames, UniverseNames \o PkgScopeNames)

\* w.name(s), recording the identifier returned
wName(w, s) ==
    With(name(w.names, s), LAMBDA r :
        [w |-> [w EXCEPT !.names = r.names, !.allocs = Append(@, r.r)], r |-> r.r])

\* w.indent(format, ...) writing one line
indent(w, text) == [w EXCEPT !.src = Append(@, Tabs(w.nindent) \o text)]

\* a line that declares identifier id
indentDecl(w, id, text) == [indent(w, text) EXCEPT !.decls = Append(@, id)]

\* newWriter(obj): the package clause, then every universe and package-scope
\* name is passed through name()
newWriter ==
    [names |-> SeededNames,
     pkgNames |-> <<>>, seqID |-> 0, seqIDs |-> <<>>, nindent |-> 0,
     src |-> <<"package " \o ThisPkg.name, "">>,
     seeds |-> Elems(UniverseNames \o PkgScopeNames),
     allocs |-> <<>>, decls |-> <<>>, stmts |-> <<>>, walked |-> <<>>,
     reads |-> <<>>, reported |-> {}]

\* w.qualifiedName(obj)
qualifiedName(w, obj) ==
    IF MapHas(w.pkgNames, obj.pkg)
    THEN MapGet(w.pkgNames, obj.pkg, "") \o "." \o obj.name
    ELSE obj.name

\* t.Obj of a named type: the type File is declared by package os, every
\* other named type by the package being written
TypeObj(t) == [name |-> t[2], pkg |-> IF t[2] = "File" THEN OsPkg ELSE ThisPkg]

\* w.typ panics on a type its switch has no case for (630): what typ returns
\* in place of the text of such a type
TypPanic == "panic: unexpected type"

RECURSIVE typ(_, _)
RECURSIVE sigVarsFrom(_, _, _, _)
RECURSIVE typPanics(_)

\* w.vars(vars, variadic) (645-664) from the i-th variable on; the variables
\* of a signature are unnamed, and written as _
sigVarsFrom(w, ts, i, variadic) ==
    IF i > Len(ts) THEN ""
    ELSE (IF i > 1 THEN ", " ELSE "") \o "_ "
         \o (IF variadic /\ i = Len(ts) THEN "..." \o typ(w, ts[i][2]) ELSE typ(w, ts[i]))
         \o sigVarsFrom(w, ts, i + 1, variadic)

sigVars(w, ts, variadic) == "(" \o sigVarsFrom(w, ts, 1, variadic) \o ")"

\* w.signature(f) (633-643)
signature(w, f) ==
    LET s == sigVars(w, f[3][2], f[2])
        rs == f[4][2]
    IN  IF Len(rs) = 0 THEN s
        ELSE IF Len(rs) = 1 THEN s \o " " \o typ(w, rs[1])
        ELSE s \o " " \o sigVars(w, rs, FALSE)

\* typ, case *types.Interface (609-617) and case *types.Struct (618-629)
RECURSIVE methodsText(_, _, _)
methodsText(w, ms, i) ==
    IF i > Len(ms) THEN ""
    ELSE (IF i > 1 THEN "; " ELSE "") \o ms[i].name \o signature(w, ms[i].type)
         \o methodsText(w, ms, i + 1)

RECURSIVE fieldsText(_, _, _)
fieldsText(w, fs, i) ==
    IF i > Len(fs) THEN ""
    ELSE (IF i > 1 THEN "; " ELSE "")
         \o (IF ~fs[i].anon /\ fs[i].name # "" THEN fs[i].name \o " " ELSE "")
         \o typ(w, fs[i].type) \o fieldsText(w, fs, i + 1)

\* w.typ(t) (581-631)
typ(w, t) ==
    CASE Kind(t) = "basic" -> t[2]
      [] Kind(t) = "named" -> qualifiedName(w, TypeObj(t))
      [] Kind(t) = "ptr" -> "*" \o typ(w, t[2])
      [] Kind(t) = "array" -> "[" \o ToString(t[3]) \o "]" \o typ(w, t[2])
      [] Kind(t) = "slice" -> "[]" \o typ(w, t[2])
      [] Kind(t) = "map" -> "map[" \o typ(w, t[2]) \o "]" \o typ(w, t[3])
      [] Kind(t) = "chan" ->
            (CASE t[3] = SendOnly -> "chan<- "
               [] t[3] = RecvOnly -> "<-chan "
               [] t[3] = SendRecv -> "chan "
               [] OTHER -> "") \o typ(w, t[2])
      [] Kind(t) = "func" -> "func" \o signature(w, Sig(FALSE, <<>>, <<>>))
      [] Kind(t) = "sig" -> "func" \o signature(w, t)
      [] Kind(t) = "iface" -> "interface{" \o methodsText(w, t[2], 1) \o "}"
      [] Kind(t) = "struct" -> "struct{" \o fieldsText(w, t[2], 1) \o "}"
      [] OTHER -> TypPanic

\* w.typ(t) panics: t, or a type typ is called with on the way, has no case
\* a writer whose function refers to no package
NoPkgs == [pkgNames |-> <<>>]

typPanics(t) ==
    CASE Kind(t) \in {"basic", "named", "func"} -> FALSE
      [] Kind(t) \in {"ptr", "array", "slice", "chan"} -> typPanics(t[2])
      [] Kind(t) = "map" -> typPanics(t[2]) \/ typPanics(t[3])
      [] Kind(t) = "sig" ->
            \/ \E i \in 1..Len(t[3][2]) : typPanics(t[3][2][i])
            \/ \E i \in 1..Len(t[4][2]) : typPanics(t[4][2][i])
      [] Kind(t) = "iface" -> \E i \in 1..Len(t[2]) : typPanics(t[2][i].type)
      [] Kind(t) = "struct" -> \E i \in 1..Len(t[2]) : typPanics(t[2][i].type)
      [] OTHER -> TRUE

\* saveFunc 66-68: a name for every package the function refers to
RECURSIVE namePkgs(_, _)
namePkgs(w, ps) ==
    IF ps = <<>> THEN w
    ELSE With(wName(w, Head(ps).name), LAMBDA r :
             namePkgs([r.w EXCEPT !.pkgNames = MapPut(@, Head(ps), r.r)], Tail(ps)))

\* w.imports(): the lines of the import declaration, its range over
\* w.pkgNames visiting the entries in the order q
RECURSIVE importLines(_)
importLines(ps) ==
    IF ps = <<>> THEN <<>>
    ELSE LET p == Head(ps)[1]
             id == Head(ps)[2]
         IN  <<"\t" \o (IF id # p.name THEN id \o " " ELSE "") \o "\"" \o p.path \o "\"">>
             \o importLines(Tail(ps))

imports(w, q) ==
    IF Len(w.pkgNames) = 0 THEN <<>>
    ELSE <<"import (">> \o importLines(Range(w.pkgNames, q)) \o <<")", "">>

\* w.assignExisting(m), its range over m visiting the entries in the order q
RECURSIVE assignLines(_, _)
assignLines(w, m) ==
    IF m = <<>> THEN w
    ELSE With(indent(w, Head(m)[1] \o " = " \o Head(m)[2]), LAMBDA w1 :
             assignLines(w1, Tail(m)))

assignExisting(w, m, q) == assignLines(w, Range(m, q))

\* writer.results 512-518: what is assigned to the destination of connection
\* c when the output is named nm
copied(c, nm) ==
    (IF assignable(OutType(srcNode(c)), InType(dstNode(c))) THEN nm ELSE "*" \o nm)
    \o (IF hidden(c) THEN "//" \o ConnText(c) ELSE "")

\* writer.results, the loop over p.conns (511-520): existing[vars[c.dst]] = v
RECURSIVE existingOf(_, _, _, _)
existingOf(existing, vs, cq, nm) ==
    IF cq = <<>> THEN existing
    ELSE LET c == Head(cq)
         IN  existingOf(MapPut(existing, MapGet(vs, InPort(c.dst), ""), copied(c, nm)),
                        vs, Tail(cq), nm)

\* writer.results(n, vars) for a node with the one output <<n, 1>>
results(w, cs, vs, n) ==
    LET p == <<n, 1>>
        pc == connsFrom(cs, p)
    IN  IF Len(pc) > 0
        THEN With(IF MapHas(vs, OutPort(p))
                  THEN [w |-> w, r |-> MapGet(vs, OutPort(p), "")]
                  ELSE wName(w, OutName(n)),
                  LAMBDA r : [w |-> r.w, results |-> <<r.r>>,
                              existing |-> existingOf(<<>>, vs, pc, r.r)])
        ELSE [w |-> w, results |-> <<>>, existing |-> <<>>]

\* writer.seq(n): the annotation that ends the statement's line
RECURSIVE seqIDsOf(_, _)
seqIDsOf(w, cq) ==
    IF cq = <<>> THEN <<>>
    ELSE <<ToString(MapGet(w.seqIDs, srcNode(Head(cq)), 0))>> \o seqIDsOf(w, Tail(cq))

seq(w, cs, n) ==
    LET in == connsTo(cs, <<n, 0>>)
        hasOut == Len(connsFrom(cs, <<n, 0>>)) > 0
    IN  IF Len(in) > 0 \/ hasOut
        THEN [w |-> IF hasOut
                    THEN [w EXCEPT !.seqID = @ + 1, !.seqIDs = MapPut(@, n, w.seqID)]
                    ELSE w,
              text |-> "//" \o Join(seqIDsOf(w, in), ",") \o ";"
                       \o (IF hasOut THEN ToString(w.seqID) ELSE "")]
        ELSE [w |-> w, text |-> ""]

\* writer.block 232-251: the argument for every input of the node; an input
\* with no name in vars gets a fresh zero-valued variable of its type
RECURSIVE argsOf(_, _, _, _, _)
argsOf(w, vs, n, i, args) ==
    IF i > nin[n] THEN [w |-> w, args |-> args]
    ELSE IF MapHas(vs, InPort(<<n, i>>))
    THEN argsOf(w, vs, n, i + 1, Append(args, MapGet(vs, InPort(<<n, i>>), "")))
    ELSE With(wName(w, "v"), LAMBDA r :
         With(indentDecl(r.w, r.r, "var " \o r.r \o " " \o typ(r.w, InType(n))), LAMBDA w1 :
             argsOf(w1, vs, n, i + 1, Append(args, r.r))))

\* writer.block 258: a call node writes its statement unless it calls a
\* function value that is not connected
callEmitted(hasObj, args) == ~(~hasObj /\ Len(args) = 0)

\* a plausible slip: the statement is skipped for every call without arguments
callEmittedNeedsArgs(hasObj, args) == Len(args) # 0

callWritten(hasObj, args) == callEmitted(hasObj, args)

\* n.obj of a call node is nil when it calls a function value
NoObj == [name |-> "", pkg |-> ThisPkg]

\* writer.block 253-386: the statement of node n was written.  A call node
\* skips its statement by the test of 258, a convert node when its input or
\* its output is unconnected (374)
stmtWritten(cs, n, args, res) ==
    CASE NodeKind(n) = "call" -> callWritten(CallObj(n) # NoObj, args)
      [] NodeKind(n) = "convert" -> Len(connsTo(cs, <<n, 1>>)) > 0 /\ Len(res) > 0
      [] OTHER -> FALSE

\* the text of the statement after its results: the call (260-277), the
\* conversion (375)
stmtText(w, n, args) ==
    IF NodeKind(n) = "call"
    THEN qualifiedName(w, CallObj(n)) \o "(" \o Join(args, ", ") \o ")"
    ELSE "(" \o typ(w, ConvertType) \o ")(" \o args[1] \o ")"

\* writer.block 229-387 for one node of the order: the inputsNode, whose case
\* writes nothing, a call node or the convert node; w.seq is called for a
\* call node whose statement is written (278), and w.assignExisting(existing)
\* for every node, its statement written or not (387)
emitNode(w, cs, vs, n, ord) ==
    IF NodeKind(n) = "ports"
    THEN With(results(w, cs, vs, n), LAMBDA r :
             assignExisting([r.w EXCEPT !.stmts = Append(@,
                 [n |-> n, line |-> 1, args |-> <<>>, results |-> r.results,
                  existing |-> r.existing])], r.existing, orderOf(ord.assign, n)))
    ELSE With(argsOf(w, vs, n, 1, <<>>), LAMBDA a :
         With(results(a.w, cs, vs, n), LAMBDA r :
         With(stmtWritten(cs, n, a.args, r.results), LAMBDA written :
         With(IF written /\ NodeKind(n) = "call" THEN seq(r.w, cs, n)
              ELSE [w |-> r.w, text |-> ""], LAMBDA sq :
         With(IF written
              THEN indent(sq.w,
                       (IF NodeKind(n) = "convert" THEN r.results[1] \o " := "
                        ELSE IF Len(r.results) > 0 THEN Join(r.results, ", ") \o " := "
                        ELSE "")
                       \o stmtText(sq.w, n, a.args) \o sq.text)
              ELSE r.w, LAMBDA w1 :
         With([w1 EXCEPT !.stmts = Append(@,
                  [n |-> n, line |-> IF written THEN Len(w1.src) ELSE 0,
                   args |-> a.args, results |-> r.results, existing |-> r.existing]),
               !.decls = IF written THEN @ \o r.results ELSE @], LAMBDA w2 :
             assignExisting(w2, r.existing, orderOf(ord.assign, n))))))))

RECURSIVE emitNodes(_, _, _, _, _)
emitNodes(w, cs, vs, order, ord) ==
    IF order = <<>> THEN w
    ELSE With(emitNode(w, cs, vs, Head(order), ord), LAMBDA w1 :
             emitNodes(w1, cs, vs, Tail(order), ord))

\* a plausible slip: the order is walked from its end
walkReversed(w, cs, vs, order, ord) == emitNodes(w, cs, vs, Reverse(order), ord)

\* writer.block 229: for _, n := range order
walk(w, cs, vs, order, ord) == emitNodes(w, cs, vs, order, ord)

\* writer.block 215-217: the block's local variables
RECURSIVE declLocals(_, _)
declLocals(w, lv) ==
    IF lv = <<>> THEN w
    ELSE With(indentDecl(w, Head(lv), "var " \o Head(lv) \o " " \o typ(w, TInt) \o "//"),
              LAMBDA w1 : declLocals(w1, Tail(lv)))

\* writer.block 218-228: a variable for every connection of the block whose
\* destination has no name yet, sequence connections excepted
RECURSIVE declConns(_, _, _)
declConns(w, vs, cq) ==
    IF cq = <<>> THEN [w |-> w, vars |-> vs]
    ELSE LET c == Head(cq) IN
         IF MapHas(vs, InPort(c.dst)) \/ c.seq THEN declConns(w, vs, Tail(cq))
         ELSE With(wName(w, "v"), LAMBDA r :
              With(indentDecl(r.w, r.r, "var " \o r.r \o " " \o typ(r.w, InType(dstNode(c)))),
                   LAMBDA w1 :
              With(MapPut(vs, InPort(c.dst), r.r), LAMBDA vs1 :
                  declConns(w1, vs1, Tail(cq)))))

\* the local variables, listed
RECURSIVE NameSeq(_)
NameSeq(S) ==
    IF S = {} THEN <<>>
    ELSE LET x == CHOOSE y \in S : TRUE IN <<x>> \o NameSeq(S \ {x})

\* writer.block(b, vars) for the function block, its ranges in the orders ord
block(w, cs, lv, vs, ord) ==
    With(nodeOrder(cs).order, LAMBDA order :
    With([w EXCEPT !.nindent = @ + 1, !.walked = order], LAMBDA w1 :
    With(declLocals(w1, Range(NameSeq(lv), ord.locals)), LAMBDA w2 :
    With(declConns(w2, vs, Range(ConnSeq(cs), orderOf(ord.conns, "F"))), LAMBDA d :
    With([d.w EXCEPT !.reads = d.vars], LAMBDA w3 :
    With(walk(w3, cs, d.vars, order, ord), LAMBDA w4 :
        [w4 EXCEPT !.nindent = @ - 1]))))))

\* writer.fun(f, vars) for the function being saved: one parameter, no result
fun(w, cs, lv, ord) ==
    With(wName(w, ParamName), LAMBDA r :
    With(<<<<OutPort(<<0, 1>>), r.r>>>>, LAMBDA vs :
    With(indentDecl(r.w, r.r,
             "func " \o "main" \o "(" \o r.r \o " " \o typ(r.w, TInt) \o ") (" \o ") {"),
         LAMBDA w1 :
    With(block(w1, cs, lv, vs, ord), LAMBDA w2 :
        indent(w2, "}")))))

\* saveFunc(f), its ranges in the orders ord: the package names, the function
\* written to a buffer, then the imports and the buffer
saveFunc(cs, lv, ord) ==
    With(newWriter, LAMBDA w0 :
    With(namePkgs(w0, Range(pkgRefs, ord.pkgs)), LAMBDA w1 :
    With([w1 EXCEPT !.src = <<>>], LAMBDA buf :
    With(fun(buf, cs, lv, ord), LAMBDA w2 :
        [w2 EXCEPT !.src = w1.src \o imports(w2, ord.imps) \o w2.src]))))

---------------------------------------------------------------------------
(* The editor's changes of the graph, and generation *)

LocalVarChoices == { {}, {"n", "v"} }

Edited ==
    /\ gen' = 0
    /\ out' = NoOut
    /\ UNCHANGED <<nin, localVars>>
    /\ UNCHANGED <<ixVars, lpVars, moreVars>>

\* connect(src, dst) of an output to an input: a connection the input already
\* has is replaced
Connect ==
    \E s \in Nodes, d \in CallNodes :
        /\ s # d
        /\ nin[d] >= 1
        /\ DataConn(s, d) \notin conns
        /\ conns' = {c \in conns : c.seq \/ c.dst # <<d, 1>>} \cup {DataConn(s, d)}
        /\ Cardinality(conns') <= MaxConns
        /\ Edited

\* connect(src, dst) of a sequence-out port to a sequence-in port
ConnectSeq ==
    \E s \in CallNodes, d \in CallNodes :
        /\ s # d
        /\ SeqConn(s, d) \notin conns
        /\ Cardinality(conns) < MaxConns
        /\ conns' = conns \cup {SeqConn(s, d)}
        /\ Edited

\* disconnect(connection)
Disconnect ==
    \E c \in conns :
        /\ conns' = conns \ {c}
        /\ Edited

\* saveFunc(f), run on every save
Generate ==
    /\ gen = 0
    /\ \E ord \in RangeOrders(conns, localVars) : out' = saveFunc(conns, localVars, ord)
    /\ gen' = 1
    /\ UNCHANGED <<nin, conns, localVars>>
    /\ UNCHANGED <<ixVars, lpVars, moreVars>>

Init ==
    /\ nin \in [CallNodes -> {0, 1}]
    /\ localVars \in LocalVarChoices
    /\ conns = {}
    /\ gen = 0
    /\ out = NoOut
    /\ IndexIdle
    /\ LoopIdle
    /\ MoreIdle

Next ==
    \/ Connect
    \/ ConnectSeq
    \/ Disconnect
    \/ Generate

Spec == Init /\ [][Next]_vars

---------------------------------------------------------------------------
(* Claims about generation, checked under Spec *)

Generated == gen = 1

\* the nodes reached from the nodes of S along 1..k connections
RECURSIVE ReachN(_, _, _)
ReachN(cs, S, k) ==
    IF k = 0 THEN {}
    ELSE LET T == {dstNode(c) : c \in {c \in cs : srcNode(c) \in S}}
         IN  T \cup ReachN(cs, T, k - 1)

\* the dependency graph induced by the data and sequence connections has a cycle
HasCycle(cs) == \E n \in Nodes : n \in ReachN(cs, {n}, Cardinality(Nodes))

\* the statement record of node n in the last generation, if it was walked
Walked(n) == \E i \in 1..Len(out.stmts) : out.stmts[i].n = n
StmtOf(n) == out.stmts[CHOOSE i \in 1..Len(out.stmts) : out.stmts[i].n = n]
Pos(n) == CHOOSE i \in 1..Len(out.walked) : out.walked[i] = n

\* the line of the text that holds node n's statement (the header, for the
\* inputsNode): a statement's line is counted in the buffer the function is
\* written to, which follows the package clause and the imports
Base == Len(newWriter.src) + Len(imports(out, <<>>))
LineOf(n) == Base + StmtOf(n).line

NoDup(q) == \A i, j \in 1..Len(q) : i # j => q[i] # q[j]

\* C1: with no change of the graph in between, two successive generations of
\* the function write the same text: whatever order a later generation ranges
\* over its maps in, its text is the text already written.
C1_RegenerationIdentical ==
    Generated => \A ord \in RangeOrders(conns, localVars) : saveFunc(conns, localVars, ord).src = out.src

\* C2: if the block's dependency graph has a cycle, generation reports the
\* failure and block emission does not proceed with an order for the block: no
\* statement of one of its call nodes is written.
C2_CycleReported ==
    (Generated /\ HasCycle(conns)) =>
        /\ out.reported # {}
        /\ \A i \in 1..Len(out.stmts) : out.stmts[i].n = 0

\* C3: in the order block emission walks, a node that a walked node depends on
\* by a data or sequence connection is walked strictly before it, and its
\* statement, when both have one, is written on an earlier line; when the block
\* has no cycle every node is walked, so this orders every connection.
C3_ProducerBeforeConsumer ==
    Generated =>
        /\ \A c \in conns :
              Walked(dstNode(c)) =>
                 /\ Walked(srcNode(c))
                 /\ Pos(srcNode(c)) < Pos(dstNode(c))
                 /\ (StmtOf(srcNode(c)).line > 0 /\ StmtOf(dstNode(c)).line > 0)
                       => StmtOf(srcNode(c)).line < StmtOf(dstNode(c)).line
        /\ ~HasCycle(conns) => \A n \in Nodes : Walked(n)

\* a sequence connection alone puts node 2 after node 3, which feeds node 1 too
C3_Witness ==
    /\ Generated
    /\ conns = {SeqConn(3, 2), DataConn(3, 1)}
    /\ out.walked = <<0, 3, 1, 2>>
    /\ StmtOf(3).line < StmtOf(2).line

\* the output ports of the block that have two or more destinations
FanOut == {n \in Nodes : Len(connsFrom(conns, <<n, 1>>)) >= 2}

\* the name the input at the destination of connection c is read by
ReadName(c) == MapGet(out.reads, InPort(c.dst), "")

\* some line after line i of the text is t
WrittenAfter(i, t) == \E j \in (i + 1)..Len(out.src) : out.src[j] = t

\* C4 as stated: every destination of a fanned-out output reads the same
\* name, the single name the producing statement allocated for the output.
C4_SameNameAtEveryDestination ==
    Generated =>
        \A n \in FanOut : Walked(n) =>
            \A c \in Elems(connsFrom(conns, <<n, 1>>)) :
                /\ Len(StmtOf(n).results) = 1
                /\ ReadName(c) = StmtOf(n).results[1]

\* scenario A: a call node with no inputs whose output feeds the first inputs of
\* the two other call nodes, in a block without a cycle
ScenarioA(p) ==
    /\ nin[p] = 0
    /\ \A d \in CallNodes \ {p} : DataConn(p, d) \in conns
    /\ ~HasCycle(conns)

\* C5: in scenario A the producer is written as exactly one call statement,
\* on a line before both consumers' statements, whichever of the two consumers
\* comes first.
C5_ProducerOnceBeforeConsumers ==
    Generated =>
        \A p \in CallNodes : ScenarioA(p) =>
            /\ Cardinality({i \in 1..Len(out.stmts) : out.stmts[i].n = p}) = 1
            /\ StmtOf(p).line > 0
            /\ Cardinality({j \in 1..Len(out.src) : out.src[j] = out.src[LineOf(p)]}) = 1
            /\ \A d \in CallNodes \ {p} :
                  /\ StmtOf(d).line > StmtOf(p).line
                  /\ Len(StmtOf(d).args) = 1

\* the producer is the node created last, and a sequence connection puts
\* consumer 2 before consumer 1
C5_Witness ==
    /\ Generated
    /\ ScenarioA(3)
    /\ SeqConn(2, 1) \in conns
    /\ StmtOf(3).line < StmtOf(2).line
    /\ StmtOf(2).line < StmtOf(1).line

\* C6: within one generation no two bindings get the same identifier and no
\* identifier introduced by the writer is a name that was visible at the start:
\* the identifiers name() returns are pairwise distinct and none is a seeded
\* name, and the identifiers the text declares, block-local variables
\* included, are pairwise distinct.
C6_NameHygiene ==
    Generated =>
        /\ NoDup(out.allocs)
        /\ \A i \in 1..Len(out.allocs) : out.allocs[i] \notin out.seeds
        /\ NoDup(out.decls)

---------------------------------------------------------------------------
(* The loop node's header (writer.block, case *loopNode) *)

\* the name in vars of the loop's input, and the names w.names may hold when
\* the block reaches the loop node
LoopInName == "m"
TakenChoices == { {}, {"k"}, {"k", "v"} }
LoopHeaderTypes == { <<"nil">>, <<"basic", "int">>, <<"slice", <<"basic", "int">>>>,
                     <<"map", <<"basic", "string">>, <<"basic", "int">>>>,
                     <<"named", "M", <<"map", <<"basic", "string">>, <<"basic", "int">>>>>> }

RECURSIVE SetSeq(_)
SetSeq(S) ==
    IF S = {} THEN <<>>
    ELSE LET x == CHOOSE y \in S : TRUE IN <<x>> \o SetSeq(S \ {x})

\* writer.block 431-486: the header of the loop, the names bound to its key and
\* value outputs, and w.names afterwards
loopHeaderOf(names, g) ==
    LET k0 == IF g.keyConn THEN name(names, "k") ELSE [names |-> names, r |-> "_"]
        v0 == IF g.nouts = 2 /\ g.valConn THEN name(k0.names, "v")
              ELSE [names |-> k0.names, r |-> "_"]
        u == Kind(underlying(g.t))
        in == IF g.t = <<"nil">> THEN "" ELSE LoopInName
        k1 == CASE u = "basic" /\ k0.r = "_" -> name(v0.names, "i")
                [] u \in {"array", "ptr", "slice"} /\ v0.r # "_" /\ k0.r = "_" -> name(v0.names, "i")
                [] OTHER -> [names |-> v0.names, r |-> k0.r]
        key == k1.r
        val == v0.r
        lines ==
            CASE u = "basic" ->
                   <<"\tfor " \o key \o " := " \o typ(NoPkgs, g.t) \o "(0); " \o key \o " < " \o in
                     \o "; " \o key \o "++ {">>
              [] u \in {"array", "ptr", "slice"} ->
                   <<"\tfor " \o key \o (IF key = "_" THEN " =" ELSE " :=") \o " range " \o in \o " {">>
                   \o (IF val # "_"
                       THEN <<"\t\tvar " \o val \o " = " \o (IF u = "array" THEN "" ELSE "&")
                              \o in \o "[" \o key \o "]">>
                       ELSE <<>>)
              [] u \in {"map", "chan"} ->
                   <<"\tfor " \o key \o (IF val # "_" THEN ", " \o val ELSE "")
                     \o (IF key = "_" /\ val = "_" THEN " =" ELSE " :=")
                     \o " range " \o in \o " {">>
              [] OTHER ->
                   <<"\tfor " \o (IF key # "_" THEN key \o " := 0;; " \o key \o "++ " ELSE "") \o "{">>
    IN  [g |-> g, names |-> k1.names, key |-> key, val |-> val, lines |-> lines]

\* a plausible slip: the value name is written whenever the loop has a value
\* output, connected or not
loopHeaderValAlways(names, g) ==
    LET h == loopHeaderOf(names, g)
    IN  IF g.nouts = 2 /\ ~g.valConn /\ Kind(underlying(g.t)) \in {"map", "chan"}
        THEN [h EXCEPT !.lines = <<"\tfor " \o h.key \o ", _ := range " \o LoopInName \o " {">>]
        ELSE h

loopHeader(names, g) == loopHeaderOf(names, g)

lhRest == <<ixVars, lpVars, emVars, ndVars, sgVars, chVars, hsVars, tmVars, geoVars, naVars, fpVars,
           brVars, vtVars>>

\* the loop's input is connected to a source of another type, or disconnected;
\* the value output exists for some types only and loses its connections with it
LoopSetInput ==
    \E t \in LoopHeaderTypes, n \in {1, 2} :
        /\ t # lh.t
        /\ lh' = [lh EXCEPT !.t = t, !.nouts = n, !.valConn = @ /\ n = 2]
        /\ UNCHANGED <<lhOut, lhPrev>>
        /\ UNCHANGED lhRest

LoopBindKey ==
    /\ lh' = [lh EXCEPT !.keyConn = ~@]
    /\ UNCHANGED <<lhOut, lhPrev>>
    /\ UNCHANGED lhRest

LoopBindVal ==
    /\ lh.nouts = 2
    /\ lh' = [lh EXCEPT !.valConn = ~@]
    /\ UNCHANGED <<lhOut, lhPrev>>
    /\ UNCHANGED lhRest

\* the definition is generated: writer.block reaches the loop node
LoopGenerate ==
    /\ lhOut.g # lh
    /\ lhOut' = loopHeader(seedNames(EmptyNames, SetSeq(lh.taken)), lh)
    /\ lhPrev' = IF lhOut = NoHeader THEN NoPrev
                 ELSE [both |-> lhOut.g.keyConn /\ lhOut.g.valConn, key |-> lhOut.key]
    /\ UNCHANGED lh
    /\ UNCHANGED lhRest

InitLoopHeader ==
    /\ \E tk \in TakenChoices :
          lh = [t |-> <<"nil">>, nouts |-> 1, keyConn |-> FALSE, valConn |-> FALSE, taken |-> tk]
    /\ lhOut = NoHeader
    /\ lhPrev = NoPrev
    /\ IndexIdle
    /\ LoopIdle
    /\ EmitterIdle
    /\ VariantIdle
    /\ SeqIdle
    /\ HandlesIdle
    /\ HashIdle
    /\ TypeMapIdle
    /\ GeoIdle
    /\ NameIdle
    /\ PathIdle
    /\ BrowserIdle
    /\ TreeIdle

NextLoopHeader ==
    \/ LoopSetInput
    \/ LoopBindKey
    \/ LoopBindVal
    \/ LoopGenerate

SpecLoopHeader == InitLoopHeader /\ [][NextLoopHeader]_vars

\* C11: for a loop over a map (named maps included), when both binding outputs
\* are connected the header is "for K, V := range m {" with two different
\* names that w.names did not hold before; when only the key binding is
\* connected, as after the value binding is disconnected and the definition
\* generated again, the header is "for K := range m {" with K a name that
\* w.names did not hold before, and no value name is written.
C11_MapRangeHeader ==
    (lhOut # NoHeader /\ Kind(underlying(lhOut.g.t)) = "map" /\ lhOut.g.keyConn) =>
        /\ lhOut.key \notin lhOut.g.taken \cup {"_", ""}
        /\ IF lhOut.g.valConn
           THEN /\ lhOut.val \notin lhOut.g.taken \cup {"_", "", lhOut.key}
                /\ lhOut.lines = <<"\tfor " \o lhOut.key \o ", " \o lhOut.val
                                   \o " := range " \o LoopInName \o " {">>
           ELSE /\ lhOut.val = "_"
                /\ lhOut.lines = <<"\tfor " \o lhOut.key \o " := range " \o LoopInName \o " {">>

\* a header with both names was generated, then one with the key alone
C11_Witness ==
    /\ lhOut # NoHeader
    /\ lhPrev.both
    /\ Kind(lhOut.g.t) = "map"
    /\ lhOut.g.nouts = 2 /\ lhOut.g.keyConn /\ ~lhOut.g.valConn
    /\ lhOut.g.taken = {"k"}
    /\ lhOut.key = "k2" /\ lhPrev.key = "k2"


---------------------------------------------------------------------------
(* One node of a block and its statement (writer.block 229-387).  An input *)
(* is "conn" (connected: vars holds its name), or unconnected and "typed"  *)
(* (a type with a zero value), "ref" (a slice, map or signature type),     *)
(* "untyped" (underlying(in.obj.Type) is nil) or "generic" (the type       *)
(* generic{} an index node gives an input it derives no type for).  A     *)
(* call node calls a function ("call"), a method, whose first input is the *)
(* receiver ("method"), or a function value, which is its first input and  *)
(* gives it its other inputs ("callValue"); ellipsis says that the last    *)
(* argument of a call is passed with "...".                                *)

CallKinds == {"call", "method", "callValue"}
NodeKinds == CallKinds \cup {"delete", "len", "binary", "index", "indexSet"}
NumIns(k) ==
    CASE k = "len" -> 1
      [] k = "indexSet" -> 3
      [] OTHER -> 2
HasOut(k) == k \in CallKinds \cup {"len", "binary", "index"}

\* the states an unconnected input of the node can be in: the inputs of a call
\* have the types of the signature, those of an index node the types
\* updateInputType derives, generic{} where it derives none (index.go 79-87)
Unconnected(k) ==
    CASE k \in CallKinds -> {"typed", "ref"}
      [] k \in {"index", "indexSet"} -> {"typed", "ref", "generic"}
      [] OTHER -> {"typed", "ref", "untyped"}

\* the states the inputs of a node can be in together.  An index node whose
\* container x is unconnected has the type generic{} for x and for every
\* other unconnected input (index.go 69-87); its key is never of a slice, map
\* or signature type.
InsStates(k) ==
    LET all == [1..NumIns(k) -> Unconnected(k) \cup {"conn"}]
    IN  IF k \in {"index", "indexSet"}
        THEN {ins \in all :
                 /\ ins[1] \in {"conn", "generic"}
                 /\ ins[2] # "ref"
                 /\ ins[1] = "generic" => \A i \in 1..NumIns(k) : ins[i] \in {"conn", "generic"}}
        ELSE IF k = "callValue"
        THEN {<<"untyped">>, <<"conn">>} \cup {ins \in all : ins[1] = "conn"}
        ELSE all

\* vars[in] for the connected input at position i
ConnName(i) == "x" \o ToString(i)

\* writer.block 232-251: args, and for every input the name resolved for it
\* ("" when the input is skipped)
\* panicked: w.typ met the type generic{} (630) when it declared the variable
RECURSIVE nodeArgs(_, _, _, _, _)
nodeArgs(names, ins, i, args, resolved) ==
    IF i > Len(ins)
    THEN [names |-> names, args |-> args, resolved |-> resolved, panicked |-> FALSE]
    ELSE CASE ins[i] = "conn" ->
                nodeArgs(names, ins, i + 1, Append(args, ConnName(i)), Append(resolved, ConnName(i)))
           [] ins[i] = "untyped" ->
                nodeArgs(names, ins, i + 1, args, Append(resolved, ""))
           [] ins[i] = "ref" ->
                nodeArgs(names, ins, i + 1, Append(args, "nil"), Append(resolved, "nil"))
           [] ins[i] = "generic" ->
                [names |-> name(names, "v").names, args |-> args, resolved |-> resolved,
                 panicked |-> typPanics(generic)]
           [] OTHER ->
                LET r == name(names, "v")
                IN  nodeArgs(r.names, ins, i + 1, Append(args, r.r), Append(resolved, r.r))

\* the reads of args by position the variant's statement makes, when it
\* writes one (writer.block 257-327): pos is the input the statement means,
\* at the index in args it reads.  A call reads args[0] for the receiver or
\* the function value (264, 267) and, with an ellipsis, the last of the
\* arguments that remain (271)
usedArgs(k, ins, res, ellipsis, args) ==
    LET at(q) == [j \in 1..Len(q) |-> [pos |-> q[j], at |-> q[j]]]
        rest == IF k = "call" THEN Len(args) ELSE Len(args) - 1
        last == IF ellipsis
                THEN <<[pos |-> Len(ins), at |-> IF rest > 0 THEN Len(args) ELSE 0]>>
                ELSE <<>>
    IN  CASE k = "call" -> last
          [] k = "method" -> at(<<1>>) \o last
          [] k = "callValue" -> IF callWritten(FALSE, args) THEN at(<<1>>) \o last ELSE <<>>
          [] k = "delete" -> IF ins[1] = "conn" THEN at(<<1, 2>>) ELSE <<>>
          [] k = "len" -> IF Len(res) > 0 /\ ins[1] = "conn" THEN at(<<1>>) ELSE <<>>
          [] k = "binary" ->
                IF Len(res) > 0 /\ \E i \in 1..Len(ins) : ins[i] = "conn"
                THEN at(<<1, 2>>) ELSE <<>>
          [] k = "index" -> IF Len(res) > 0 THEN at(<<1, 2>>) ELSE <<>>
          [] OTHER -> at(<<1, 2, 3>>)

\* the node's part of writer.block: fault is the run-time panic of w.typ on
\* an input's type, or of an index out of range on args; used lists, for each
\* position read, what was read
emitVariant(n) ==
    LET a == nodeArgs(seedNames(EmptyNames, <<"x1", "x2", "x3">>), n.ins, 1, <<>>, <<>>)
        res == IF HasOut(n.kind) /\ n.outConn THEN <<"r">> ELSE <<>>
        used == usedArgs(n.kind, n.ins, res, n.ellipsis, a.args)
        fault == a.panicked
                 \/ \E j \in 1..Len(used) : used[j].at > Len(a.args) \/ used[j].at < 1
    IN  [n |-> n, fault |-> fault, args |-> a.args, resolved |-> a.resolved,
         used |-> IF fault THEN <<>>
                  ELSE [j \in 1..Len(used) |->
                           [pos |-> used[j].pos, text |-> a.args[used[j].at]]],
         written |-> ~fault /\ (used # <<>> \/ n.kind \in {"call", "method"})]

ndRest == <<ixVars, lpVars, emVars, lhVars, sgVars, chVars, hsVars, tmVars, geoVars, naVars, fpVars,
           brVars, vtVars>>

\* the inputs after input i was connected or disconnected: the other inputs
\* keep their connections, and those of an index node the types it derives anew
InsAfter(n, i, connected) ==
    IF n.kind = "callValue" /\ i = 1
    THEN {ins \in InsStates(n.kind) :
             /\ (ins[1] = "conn") = connected
             /\ \A j \in 2..Len(ins) : ins[j] # "conn"}
    ELSE {ins \in InsStates(n.kind) :
             /\ Len(ins) = Len(n.ins)
             /\ (ins[i] = "conn") = connected
             /\ \A j \in 1..Len(ins) \ {i} :
                   /\ (ins[j] = "conn") = (n.ins[j] = "conn")
                   /\ n.kind \notin {"index", "indexSet"} => ins[j] = n.ins[j]}

NdConnect ==
    \E i \in 1..Len(nd.ins) :
        /\ nd.ins[i] # "conn"
        /\ \E ins \in InsAfter(nd, i, TRUE) : nd' = [nd EXCEPT !.ins = ins]
        /\ UNCHANGED ndOut
        /\ UNCHANGED ndRest

NdDisconnect ==
    \E i \in 1..Len(nd.ins) :
        /\ nd.ins[i] = "conn"
        /\ \E ins \in InsAfter(nd, i, FALSE) : nd' = [nd EXCEPT !.ins = ins]
        /\ UNCHANGED ndOut
        /\ UNCHANGED ndRest

NdBindOut ==
    /\ HasOut(nd.kind)
    /\ nd' = [nd EXCEPT !.outConn = ~@]
    /\ UNCHANGED ndOut
    /\ UNCHANGED ndRest

NdEmit ==
    /\ ndOut.n # nd
    /\ ndOut' = emitVariant(nd)
    /\ UNCHANGED nd
    /\ UNCHANGED ndRest

InitVariant ==
    /\ \E k \in NodeKinds, e \in BOOLEAN :
          \E ins \in {q \in InsStates(k) : \A i \in 1..Len(q) : q[i] # "conn"} :
              /\ e => k \in {"call", "method"}
              /\ nd = [kind |-> k, ins |-> ins, outConn |-> FALSE, ellipsis |-> e]
    /\ ndOut = NoVariant
    /\ IndexIdle
    /\ LoopIdle
    /\ EmitterIdle
    /\ LoopHeaderIdle
    /\ SeqIdle
    /\ HandlesIdle
    /\ HashIdle
    /\ TypeMapIdle
    /\ GeoIdle
    /\ NameIdle
    /\ PathIdle
    /\ BrowserIdle
    /\ TreeIdle

NextVariant ==
    \/ NdConnect
    \/ NdDisconnect
    \/ NdBindOut
    \/ NdEmit

SpecVariant == InitVariant /\ [][NextVariant]_vars

\* C12: whatever inputs of a node are unconnected or untyped, emission of the
\* node completes without a fault, and every positional argument its statement
\* reads is the name resolved for the input at that same position.
C12_NoFaultArgsInPlace ==
    ndOut # NoVariant =>
        /\ ~ndOut.fault
        /\ \A j \in 1..Len(ndOut.used) :
              ndOut.used[j].text = ndOut.resolved[ndOut.used[j].pos]


---------------------------------------------------------------------------
(* Sequence annotations (writer.seq).  The block holds the call nodes 1, 2 *)
(* and 3; a node in sg.unbound calls a function value that is not          *)
(* connected, so that writer.block writes no statement for it (258).       *)

MaxSeqConns == 3        \* sequence connections in the block

\* writer.block for the nodes of the order: the annotation of every statement
\* written, as the node, the predecessors and identifiers read, and its own
\* identifier ("" when it has none)
RECURSIVE seqWalk(_, _, _, _, _)
seqWalk(w, cs, unbound, order, ann) ==
    IF order = <<>> THEN ann
    ELSE LET n == Head(order) IN
         IF n = 0 \/ ~callWritten(n \notin unbound, <<>>)
         THEN seqWalk(w, cs, unbound, Tail(order), ann)
         ELSE LET in == connsTo(cs, <<n, 0>>)
                  r == seq(w, cs, n)
              IN  seqWalk(r.w, cs, unbound, Tail(order),
                      Append(ann, [n |-> n,
                                   pre |-> [i \in 1..Len(in) |->
                                               <<srcNode(in[i]), seqIDsOf(w, in)[i]>>],
                                   own |-> IF MapHas(r.w.seqIDs, n)
                                           THEN ToString(MapGet(r.w.seqIDs, n, 0)) ELSE "",
                                   text |-> r.text]))

seqAnnotations(g) ==
    [g |-> g, ann |-> seqWalk(newWriter, g.conns, g.unbound, nodeOrder(g.conns).order, <<>>)]

sgRest == <<ixVars, lpVars, emVars, lhVars, ndVars, chVars, hsVars, tmVars, geoVars, naVars, fpVars,
           brVars, vtVars>>

SqConnect ==
    \E s \in CallNodes, d \in CallNodes :
        /\ s # d
        /\ SeqConn(s, d) \notin sg.conns
        /\ Cardinality(sg.conns) < MaxSeqConns
        /\ sg' = [sg EXCEPT !.conns = @ \cup {SeqConn(s, d)}]
        /\ UNCHANGED sgOut
        /\ UNCHANGED sgRest

SqDisconnect ==
    \E c \in sg.conns :
        /\ sg' = [sg EXCEPT !.conns = @ \ {c}]
        /\ UNCHANGED sgOut
        /\ UNCHANGED sgRest

\* the function value a node calls is connected or disconnected
SqBindFunc ==
    \E n \in CallNodes :
        /\ sg' = [sg EXCEPT !.unbound = IF n \in @ THEN @ \ {n} ELSE @ \cup {n}]
        /\ UNCHANGED sgOut
        /\ UNCHANGED sgRest

SqGenerate ==
    /\ sgOut.g # sg
    /\ sgOut' = seqAnnotations(sg)
    /\ UNCHANGED sg
    /\ UNCHANGED sgRest

InitSeq ==
    /\ sg = [conns |-> {}, unbound |-> {}]
    /\ sgOut = NoAnnotations
    /\ IndexIdle
    /\ LoopIdle
    /\ EmitterIdle
    /\ LoopHeaderIdle
    /\ VariantIdle
    /\ HandlesIdle
    /\ HashIdle
    /\ TypeMapIdle
    /\ GeoIdle
    /\ NameIdle
    /\ PathIdle
    /\ BrowserIdle
    /\ TreeIdle

NextSeq ==
    \/ SqConnect
    \/ SqDisconnect
    \/ SqBindFunc
    \/ SqGenerate

SpecSeq == InitSeq /\ [][NextSeq]_vars

\* C13: in a generated text, every predecessor identifier in the annotation of
\* a statement is the own identifier the predecessor's statement wrote earlier
\* in the text, and no two statements have the same own identifier.
C13_PredecessorIdsAreOwnIds ==
    LET ann == sgOut.ann IN
    /\ \A i \in 1..Len(ann) : \A j \in 1..Len(ann[i].pre) :
          \E k \in 1..(i - 1) :
              /\ ann[k].n = ann[i].pre[j][1]
              /\ ann[k].own # ""
              /\ ann[k].own = ann[i].pre[j][2]
    /\ \A i, k \in 1..Len(ann) : (i # k /\ ann[i].own # "") => ann[i].own # ann[k].own


---------------------------------------------------------------------------
(* Connection handles (flux/connectionHandle.go).  One connection of a     *)
(* block with its source handle "s" and destination handle "d"; an end of  *)
(* the connection is a port 1 or 2, or 0 for nil.  ch is the record        *)
(*   src, dst    the ends of the connection                                *)
(*   inBlk       whether the block still holds the connection              *)
(*   editing     for each handle, its editing flag                         *)
(*   saved       for each handle, its savedConnection                      *)
(*   focus       the view with the keyboard focus: "s", "d", "conn", "blk" *)
(*   held        for each handle, the mouse buttons held on it             *)
(*   setFirst    whether the gui records a new keyboard focus before it    *)
(*               tells the view that had it (the gui package decides; the  *)
(*               handles do not change it)                                 *)

MaxButtons == 2         \* mouse buttons held at a time

Handles == {"s", "d"}
Ports == {1, 2}
NilPort == 0

\* connection.connected(): both ends are set
connected(c) == c.src # NilPort /\ c.dst # NilPort

RECURSIVE TakeKeyboardFocus(_, _)
RECURSIVE stopEditing(_, _)

\* a plausible slip: the connection is kept whether or not it is connected
stopEditingKeep(c, h) == [c EXCEPT !.editing[h] = FALSE]

\* connectionHandle.stopEditing (47-57)
stopEditing(c, h) ==
    IF c.editing[h]
    THEN IF connected(c)
         THEN [c EXCEPT !.editing[h] = FALSE]
         ELSE TakeKeyboardFocus([c EXCEPT !.editing[h] = FALSE, !.inBlk = FALSE], "blk")
    ELSE c

\* connectionHandle.LostKeyboardFocus (60)
LostKeyboardFocus(c, h) == stopEditing(c, h)

\* v.TakeKeyboardFocus() of the gui package: the view that had the focus gets
\* LostKeyboardFocus, before or after v is recorded as the view that has it.
\* A LostKeyboardFocus that takes the focus for the block (54) runs inside
\* this call
TakeKeyboardFocus(c, v) ==
    IF c.focus = v THEN c
    ELSE IF c.setFirst
    THEN IF c.focus \in Handles
         THEN LostKeyboardFocus([c EXCEPT !.focus = v], c.focus)
         ELSE [c EXCEPT !.focus = v]
    ELSE [(IF c.focus \in Handles THEN LostKeyboardFocus(c, c.focus) ELSE c)
          EXCEPT !.focus = v]

\* connectionHandle.startEditing (35-40)
startEditing(c, h) ==
    LET c1 == [c EXCEPT !.saved[h] = IF h = "s" THEN c.src ELSE c.dst]
    IN  [TakeKeyboardFocus(c1, h) EXCEPT !.editing[h] = TRUE]

\* restoreSavedConnection (118, 173)
restoreSavedConnection(c, h) ==
    IF h = "s" THEN [c EXCEPT !.src = c.saved[h]] ELSE [c EXCEPT !.dst = c.saved[h]]

\* connectionHandle.cancelEditing (42-45)
cancelEditing(c, h) == stopEditing(restoreSavedConnection(c, h), h)

\* updateConnection(p) (120-128, 175-183): p is over port hit (0: over no
\* port of the kind), which can be connected or not
updateConnection(c, h, hit, can) ==
    IF h = "s"
    THEN IF hit # NilPort /\ can THEN [c EXCEPT !.src = hit] ELSE [c EXCEPT !.dst = NilPort]
    ELSE IF hit # NilPort /\ can THEN [c EXCEPT !.dst = hit] ELSE [c EXCEPT !.src = NilPort]

\* moveToNearestConnectablePort (130-143, 185-198): the nearest port, if any
moveToNearestConnectablePort(c, h, p) ==
    IF p = NilPort THEN c
    ELSE IF h = "s" THEN [c EXCEPT !.src = p] ELSE [c EXCEPT !.dst = p]

chRest == <<ixVars, lpVars, emVars, lhVars, ndVars, sgVars, hsVars, tmVars, geoVars, naVars, fpVars,
           brVars, vtVars>>

\* the mouse buttons held on the handles
buttonsHeld(c) == c.held["s"] + c.held["d"]

\* MousePressed (87-90) on a handle, with any button
MousePressed ==
    \E h \in Handles, hit \in Ports \cup {NilPort}, can \in BOOLEAN :
        /\ ch.inBlk
        /\ buttonsHeld(ch) < MaxButtons
        /\ ch' = [updateConnection(startEditing(ch, h), h, hit, can) EXCEPT !.held[h] = @ + 1]
        /\ UNCHANGED chRest

\* MouseDragged (91-93) on a handle a button is held on
MouseDragged ==
    \E h \in Handles, hit \in Ports \cup {NilPort}, can \in BOOLEAN :
        /\ ch.held[h] > 0
        /\ ch.editing[h]
        /\ ch' = updateConnection(ch, h, hit, can)
        /\ UNCHANGED chRest

\* MouseReleased (94-97) on a handle a button is held on
MouseReleased ==
    \E h \in Handles, hit \in Ports \cup {NilPort}, can \in BOOLEAN :
        /\ ch.held[h] > 0
        /\ ch' = [stopEditing(IF ch.editing[h]
                              THEN updateConnection(ch, h, hit, can)
                              ELSE ch, h)
                  EXCEPT !.held[h] = @ - 1]
        /\ UNCHANGED chRest

\* KeyPressed (62-85, 145-158, 200-213) on the handle with the keyboard
\* focus; a handle that is not editing passes the focus to a view v
KeyArrow ==
    \E p \in Ports \cup {NilPort}, v \in {"s", "d", "blk"} :
        /\ ch.focus \in Handles
        /\ ch' = IF ch.editing[ch.focus]
                 THEN moveToNearestConnectablePort(ch, ch.focus, p)
                 ELSE TakeKeyboardFocus(ch, v)
        /\ ch' # ch
        /\ UNCHANGED chRest

KeyEnter ==
    /\ ch.focus \in Handles
    /\ ch' = IF ch.editing[ch.focus] THEN stopEditing(ch, ch.focus)
             ELSE startEditing(ch, ch.focus)
    /\ UNCHANGED chRest

KeyEsc ==
    /\ ch.focus \in Handles
    /\ ch' = IF ch.editing[ch.focus] THEN cancelEditing(ch, ch.focus)
             ELSE TakeKeyboardFocus(ch, "conn")
    /\ UNCHANGED chRest

\* another view takes the keyboard focus
FocusLost ==
    /\ ch.focus \in Handles
    /\ ch' = TakeKeyboardFocus(ch, "blk")
    /\ UNCHANGED chRest

\* a handle of the connection is given the keyboard focus
FocusHandle ==
    \E h \in Handles :
        /\ ch.inBlk
        /\ ch.focus # h
        /\ ch' = TakeKeyboardFocus(ch, h)
        /\ UNCHANGED chRest

InitHandles ==
    /\ \E s \in Ports, d \in Ports, first \in BOOLEAN :
          ch = [src |-> s, dst |-> d, inBlk |-> TRUE,
                editing |-> [h \in Handles |-> FALSE],
                saved |-> [h \in Handles |-> NilPort],
                focus |-> "blk", held |-> [h \in Handles |-> 0], setFirst |-> first]
    /\ IndexIdle
    /\ LoopIdle
    /\ EmitterIdle
    /\ LoopHeaderIdle
    /\ VariantIdle
    /\ SeqIdle
    /\ HashIdle
    /\ TypeMapIdle
    /\ GeoIdle
    /\ NameIdle
    /\ PathIdle
    /\ BrowserIdle
    /\ TreeIdle

NextHandles ==
    \/ MousePressed
    \/ MouseDragged
    \/ MouseReleased
    \/ KeyArrow
    \/ KeyEnter
    \/ KeyEsc
    \/ FocusLost
    \/ FocusHandle

SpecHandles == InitHandles /\ [][NextHandles]_vars

\* C14: whenever no handle of the connection is in editing mode, the
\* connection, if its block still holds it, has both a source and a
\* destination: a connection that lacks an end when editing stops has been
\* removed from the block.
C14_NoPartialConnection ==
    (\A h \in Handles : ~ch.editing[h]) =>
        (ch.inBlk => (ch.src # NilPort /\ ch.dst # NilPort))

\* editing has stopped on a connection that lacked an end, and the block no
\* longer holds it
C14_Witness ==
    /\ \A h \in Handles : ~ch.editing[h]
    /\ ~ch.inBlk
    /\ ch.dst = NilPort
    /\ ch.src # NilPort
    /\ buttonsHeld(ch) = 0


---------------------------------------------------------------------------
(* typemap: the hash of a type (flux/go/types/typemap/typemap.go).  A      *)
(* uint32 is the pair <<high 16 bits, low 16 bits>>, so that the           *)
(* arithmetic is the code's, modulo 2^32.  Besides the types above:        *)
(*   <<"tuple", types>>                                                    *)
(*   <<"struct", fields>>    a field is [name, anon, tag, type]            *)
(*   <<"sig", variadic, params, results>>  params, results: tuples         *)
(*   <<"iface", methods>>    a method is [name, type]                      *)

Half == 65536

u32(n) == <<n \div Half, n % Half>>

\* a + b and a * c modulo 2^32, for a factor c below 2^14
add32(a, b) == <<(a[1] + b[1] + (a[2] + b[2]) \div Half) % Half, (a[2] + b[2]) % Half>>
mul32(a, c) == <<(a[1] * c + (a[2] * c) \div Half) % Half, (a[2] * c) % Half>>

\* a * 16777619 modulo 2^32: 16777619 = 2^24 + 403
mulPrime(a) == add32(<<(a[2] % 256) * 256, 0>>, mul32(a, 403))

\* the exclusive or of two bytes
RECURSIVE xor8(_, _, _)
xor8(a, b, bits) ==
    IF bits = 0 THEN 0
    ELSE ((a + b) % 2) + 2 * xor8(a \div 2, b \div 2, bits - 1)

\* s[i] for i < len(s): the bytes of the identifiers and tags the model uses
NameBytes(s) ==
    CASE s = "" -> <<>>
      [] s = "a" -> <<97>>
      [] s = "b" -> <<98>>
      [] s = "f" -> <<102>>
      [] s = "g" -> <<103>>
      [] s = "T" -> <<84>>
      [] s = "tag" -> <<116, 97, 103>>

\* hashString (233-240)
RECURSIVE hashBytes(_, _)
hashBytes(h, bs) ==
    IF bs = <<>> THEN h
    ELSE hashBytes(mulPrime(<<h[1], (h[2] \div 256) * 256 + xor8(h[2] % 256, Head(bs), 8)>>),
                   Tail(bs))

hashString(s) == hashBytes(u32(0), NameBytes(s))

\* types.Basic.Kind
BasicKind(n) ==
    CASE n = "bool" -> 1
      [] n = "int" -> 2
      [] OTHER -> 17

\* uint32(uintptr(unsafe.Pointer(t.Obj))) (295-297): the low 32 bits of where
\* the object of a named type lies.  Where the objects lie differs from run to
\* run, and two objects may lie at addresses with the same low 32 bits: addr
\* is one run's choice, any function from the objects to the addresses.
HashObjs == {"T", "U"}
Addrs == {<<49152, 4096>>, <<49152, 4160>>}
ObjAddrs == [HashObjs -> Addrs]
NoObjs == <<>>
ObjAddr(addr, n) == addr[n]

\* hashFor panics on a type its switch has no case for (302): what Hash
\* returns in place of the hash of such a type
HashPanic == <<"panic">>

\* a plausible slip: the hash of an interface depends on the order of its methods
RECURSIVE hashMethodsOrdered(_, _, _)
hashMethodsOrdered(hash, names, hashes) ==
    IF names = <<>> THEN hash
    ELSE hashMethodsOrdered(
             add32(mul32(hash, 3),
                   add32(mul32(hashString(Head(names)), 3), mul32(Head(hashes), 5))),
             Tail(names), Tail(hashes))

\* hashFor, case *types.Interface (278-287): names and hashes are the methods'
\* names and the hashes of their types
RECURSIVE hashMethods(_, _, _)
hashMethods(hash, names, hashes) ==
    IF names = <<>> THEN hash
    ELSE hashMethods(
             add32(hash, add32(mul32(hashString(Head(names)), 3), mul32(Head(hashes), 5))),
             Tail(names), Tail(hashes))

RECURSIVE Hash(_, _)
RECURSIVE hashTupleFrom(_, _, _)
RECURSIVE hashFields(_, _, _)
RECURSIVE hashPanics(_)

\* hashTuple (305-313), from the hash so far
hashTupleFrom(addr, hash, ts) ==
    IF ts = <<>> THEN hash
    ELSE hashTupleFrom(addr, add32(hash, mul32(Hash(addr, Head(ts)), 3)), Tail(ts))

hashTuple(addr, tuple) == hashTupleFrom(addr, u32(9137 + 2 * Len(tuple[2])), tuple[2])

\* hashFor, case *types.Struct (255-266)
hashFields(addr, hash, fs) ==
    IF fs = <<>> THEN hash
    ELSE LET f == Head(fs)
             h1 == IF f.anon THEN add32(hash, u32(8861)) ELSE hash
         IN  hashFields(addr,
                        add32(add32(add32(h1, hashString(f.tag)), hashString(f.name)),
                              Hash(addr, f.type)),
                        Tail(fs))

\* Hasher.Hash, Hasher.hashFor (223-303), in a run whose objects lie at addr
Hash(addr, t) ==
    CASE Kind(t) = "basic" -> u32(BasicKind(t[2]))
      [] Kind(t) = "array" -> add32(u32(9043 + 2 * t[3]), mul32(Hash(addr, t[2]), 3))
      [] Kind(t) = "slice" -> add32(u32(9049), mul32(Hash(addr, t[2]), 2))
      [] Kind(t) = "struct" -> hashFields(addr, u32(9059), t[2])
      [] Kind(t) = "ptr" -> add32(u32(9067), mul32(Hash(addr, t[2]), 2))
      [] Kind(t) = "sig" ->
            add32(IF t[2] THEN mul32(u32(9091), 8863) ELSE u32(9091),
                  add32(mul32(hashTuple(addr, t[3]), 3), mul32(hashTuple(addr, t[4]), 5)))
      [] Kind(t) = "iface" ->
            hashMethods(u32(9103), [i \in 1..Len(t[2]) |-> t[2][i].name],
                        [i \in 1..Len(t[2]) |-> Hash(addr, t[2][i].type)])
      [] Kind(t) = "map" ->
            add32(u32(9109), add32(mul32(Hash(addr, t[2]), 2), mul32(Hash(addr, t[3]), 3)))
      [] Kind(t) = "chan" -> add32(u32(9127 + 2 * t[3]), mul32(Hash(addr, t[2]), 3))
      [] Kind(t) = "named" -> ObjAddr(addr, t[2])
      [] Kind(t) = "tuple" -> hashTuple(addr, t)
      [] OTHER -> HashPanic

\* Hash(t) panics: t, or a type Hash is called with on the way, has no case
hashPanics(t) ==
    CASE Kind(t) \in {"basic", "named"} -> FALSE
      [] Kind(t) \in {"array", "slice", "ptr", "chan"} -> hashPanics(t[2])
      [] Kind(t) = "map" -> hashPanics(t[2]) \/ hashPanics(t[3])
      [] Kind(t) = "tuple" -> \E i \in 1..Len(t[2]) : hashPanics(t[2][i])
      [] Kind(t) = "sig" -> hashPanics(t[3]) \/ hashPanics(t[4])
      [] Kind(t) \in {"struct", "iface"} -> \E i \in 1..Len(t[2]) : hashPanics(t[2][i].type)
      [] OTHER -> TRUE

\* types.IsIdentical
RECURSIVE IsIdentical(_, _)
IsIdentical(t, u) ==
    /\ Kind(t) = Kind(u)
    /\ CASE Kind(t) = "basic" -> t[2] = u[2]
         [] Kind(t) \in {"array", "chan"} -> t[3] = u[3] /\ IsIdentical(t[2], u[2])
         [] Kind(t) \in {"slice", "ptr"} -> IsIdentical(t[2], u[2])
         [] Kind(t) = "map" -> IsIdentical(t[2], u[2]) /\ IsIdentical(t[3], u[3])
         [] Kind(t) = "named" -> t[2] = u[2]
         [] Kind(t) = "tuple" ->
               /\ Len(t[2]) = Len(u[2])
               /\ \A i \in 1..Len(t[2]) : IsIdentical(t[2][i], u[2][i])
         [] Kind(t) = "struct" ->
               /\ Len(t[2]) = Len(u[2])
               /\ \A i \in 1..Len(t[2]) :
                     /\ t[2][i].name = u[2][i].name
                     /\ t[2][i].anon = u[2][i].anon
                     /\ t[2][i].tag = u[2][i].tag
                     /\ IsIdentical(t[2][i].type, u[2][i].type)
         [] Kind(t) = "sig" ->
               /\ t[2] = u[2]
               /\ IsIdentical(t[3], u[3])
               /\ IsIdentical(t[4], u[4])
         [] OTHER ->
               /\ Len(t[2]) = Len(u[2])
               /\ \A i \in 1..Len(t[2]) : \E j \in 1..Len(u[2]) :
                     /\ t[2][i].name = u[2][j].name
                     /\ IsIdentical(t[2][i].type, u[2][j].type)

\* the types the hash is taken of
HBasics == {TInt, TString}
HSigs == { Sig(FALSE, <<>>, <<>>), Sig(FALSE, <<TInt>>, <<>>), Sig(FALSE, <<>>, <<TInt>>),
           Sig(TRUE, <<Slice(TInt)>>, <<>>) }
HFields == { Field("a", FALSE, "", TInt), Field("b", FALSE, "", TString),
             Field("a", FALSE, "tag", TInt), Field("T", TRUE, "", Named("T", TInt)) }
HMethods == { Method("f", Sig(FALSE, <<>>, <<>>)), Method("g", Sig(FALSE, <<TInt>>, <<>>)),
              Method("f", Sig(FALSE, <<TInt>>, <<>>)) }
HashTypes ==
    HBasics
    \cup {<<"array", b, n>> : b \in HBasics, n \in {1, 2}}
    \cup {Slice(b) : b \in HBasics} \cup {Pointer(b) : b \in HBasics}
    \cup {Map(k, e) : k \in HBasics, e \in HBasics}
    \cup {<<"chan", b, d>> : b \in HBasics, d \in {0, 1}}
    \cup {Named("T", TInt), Named("U", TInt)}
    \cup {Tuple(<<>>), Tuple(<<TInt>>), Tuple(<<TInt, TString>>), Tuple(<<TString, TInt>>)}
    \cup HSigs
    \cup {<<"struct", <<>>>>} \cup {<<"struct", <<f>>>> : f \in HFields}
    \cup {<<"struct", <<f, g>>>> : f \in HFields, g \in HFields}
    \cup {<<"iface", <<>>>>} \cup {<<"iface", <<m>>>> : m \in HMethods}
    \cup {<<"iface", mm>> : mm \in {<<m, n>> : m \in HMethods, n \in HMethods} \ {<<m, n>> \in HMethods \X HMethods : m.name = n.name}}
    \cup {generic, Slice(generic)}

hsRest == <<ixVars, lpVars, emVars, lhVars, ndVars, sgVars, chVars, tmVars, geoVars, naVars, fpVars,
           brVars, vtVars>>

\* Hash is called on the two types; fault when one of the calls panicked
HashBoth ==
    /\ ~hs.done
    /\ hs' = IF hashPanics(hs.t) \/ hashPanics(hs.u)
             THEN [hs EXCEPT !.done = TRUE, !.fault = TRUE]
             ELSE [hs EXCEPT !.done = TRUE, !.ht = Hash(hs.addr, hs.t),
                             !.hu = Hash(hs.addr, hs.u)]
    /\ UNCHANGED hsRest

InitHash ==
    /\ \E t \in HashTypes, u \in HashTypes, addr \in ObjAddrs :
          hs = [t |-> t, u |-> u, addr |-> addr, done |-> FALSE, fault |-> FALSE,
                ht |-> <<0, 0>>, hu |-> <<0, 0>>]
    /\ IndexIdle
    /\ LoopIdle
    /\ EmitterIdle
    /\ LoopHeaderIdle
    /\ VariantIdle
    /\ SeqIdle
    /\ HandlesIdle
    /\ TypeMapIdle
    /\ GeoIdle
    /\ NameIdle
    /\ PathIdle
    /\ BrowserIdle
    /\ TreeIdle

NextHash == HashBoth

SpecHash == InitHash /\ [][NextHash]_vars

\* C15: two types that are identical, of the kinds Hash has a case for, have
\* the same hash, the arithmetic taken modulo 2^32, wherever the run placed the
\* objects of the named types; in particular two interfaces that list the same
\* methods in a different order.
C15_IdenticalTypesHashEqual ==
    (hs.done /\ ~hs.fault /\ IsIdentical(hs.t, hs.u)) => hs.ht = hs.hu

\* two interfaces with the same two methods in opposite orders have been hashed
\* (3 * hashString("f") alone exceeds 2^32, so the sum has wrapped)
C15_Witness ==
    /\ hs.done
    /\ Kind(hs.t) = "iface" /\ Len(hs.t[2]) = 2
    /\ hs.t # hs.u
    /\ IsIdentical(hs.t, hs.u)
    /\ hs.ht = hs.hu


---------------------------------------------------------------------------
(* typemap.M (flux/go/types/typemap/typemap.go): a map from types to       *)
(* values.  The table maps a hash to a bucket; a bucket is a slice, kept   *)
(* as its entries and the capacity of its array; a bucket the table does   *)
(* not hold has capacity 0, and the nil table holds none.  An operation    *)
(* yields the map after it, what it returns and whether it faulted.        *)

NilValue == "nil"
TMValues == {"x", "y"}

\* the keys: KeyP and KeyP2 are identical; KeyP, KeyQ and KeyR are pairwise not
\* identical and have the same hash, so that all of them share a bucket
IfaceFG == <<"iface", <<Method("f", Sig(FALSE, <<>>, <<>>)), Method("g", Sig(FALSE, <<TInt>>, <<>>))>>>>
IfaceGF == <<"iface", <<Method("g", Sig(FALSE, <<TInt>>, <<>>)), Method("f", Sig(FALSE, <<>>, <<>>))>>>>
KeyP == <<"struct", <<Field("a", FALSE, "", IfaceFG), Field("b", FALSE, "", TInt)>>>>
KeyP2 == <<"struct", <<Field("a", FALSE, "", IfaceGF), Field("b", FALSE, "", TInt)>>>>
KeyQ == <<"struct", <<Field("b", FALSE, "", TInt), Field("a", FALSE, "", IfaceFG)>>>>
KeyR == <<"struct", <<Field("a", FALSE, "", TInt), Field("b", FALSE, "", IfaceFG)>>>>
TMKeys == {KeyP, KeyP2, KeyQ, KeyR}
\* the hasher's memo (223-230): the hash of every key
HashOf == [k \in TMKeys |-> Hash(NoObjs, k)]
TMHashes == {HashOf[k] : k \in TMKeys}

\* how many times the callback of one Iterate changes the map
MaxCallbackOps == 2

NoEntry == [key |-> NilType, value |-> NilValue]
NoBucket == [ents |-> <<>>, cap |-> 0]
NilTable == [h \in TMHashes |-> NoBucket]
Result(m, ret, fault) == [m |-> m, ret |-> ret, fault |-> fault]
MaxOf(S) == CHOOSE x \in S : \A y \in S : y <= x

\* a plausible slip: keys compared as pointers
identAtPointer(ents, k) ==
    {i \in 1..Len(ents) : ents[i].key # NilType /\ k = ents[i].key}

\* where a bucket holds a live entry with a key identical to k (71, 89, 107)
identAt(ents, k) ==
    {i \in 1..Len(ents) : ents[i].key # NilType /\ IsIdentical(k, ents[i].key)}

\* where a bucket holds an unused entry (105)
holesOf(ents) == {i \in 1..Len(ents) : ents[i].key = NilType}

\* append(bucket, e): in place if the array has room, else in a new array
appendEntry(b, e) ==
    [ents |-> Append(b.ents, e),
     cap |-> IF Len(b.ents) < b.cap THEN b.cap ELSE IF b.cap = 0 THEN 1 ELSE 2 * b.cap]

\* a plausible slip: Delete forgets the length
MDeleteKeepsLength(m, k) ==
    LET is == identAt(m.table[HashOf[k]].ents, k) IN
    IF ~m.isNil /\ m.table # NilTable /\ is # {}
    THEN Result([m EXCEPT !.table[HashOf[k]].ents[Min(is)] = NoEntry], TRUE, FALSE)
    ELSE Result(m, FALSE, FALSE)

\* M.Delete (66-81)
MDelete(m, k) ==
    LET is == identAt(m.table[HashOf[k]].ents, k) IN
    IF ~m.isNil /\ m.table # NilTable /\ is # {}
    THEN Result([m EXCEPT !.table[HashOf[k]].ents[Min(is)] = NoEntry, !.length = @ - 1],
                TRUE, FALSE)
    ELSE Result(m, FALSE, FALSE)

\* M.At (86-95)
MAt(m, k) ==
    LET ents == m.table[HashOf[k]].ents
        is == identAt(ents, k)
    IN  IF ~m.isNil /\ m.table # NilTable /\ is # {}
        THEN Result(m, ents[Min(is)].value, FALSE)
        ELSE Result(m, NilValue, FALSE)

\* M.Set (99-129); m.table of a nil receiver faults
MSet(m, k, v) ==
    LET h == HashOf[k]
        b == m.table[h]
        is == identAt(b.ents, k)
        hl == holesOf(b.ents)
    IN  IF m.isNil THEN Result(m, NilValue, TRUE)
        ELSE IF m.table = NilTable
        THEN Result([m EXCEPT !.table[h] = [ents |-> <<[key |-> k, value |-> v]>>, cap |-> 1],
                              !.length = @ + 1], NilValue, FALSE)
        ELSE IF is # {}
        THEN Result([m EXCEPT !.table[h].ents[Min(is)].value = v],
                    b.ents[Min(is)].value, FALSE)
        ELSE IF hl # {}
        THEN Result([m EXCEPT !.table[h].ents[MaxOf(hl)] = [key |-> k, value |-> v],
                              !.length = @ + 1], NilValue, FALSE)
        ELSE Result([m EXCEPT !.table[h] = appendEntry(b, [key |-> k, value |-> v]),
                              !.length = @ + 1], NilValue, FALSE)

\* a plausible slip: Len reads the length of a nil receiver
MLenUnguarded(m) == Result(m, m.length, m.isNil)

\* M.Len (132-137)
MLen(m) == IF ~m.isNil THEN Result(m, m.length, FALSE) ELSE Result(m, 0, FALSE)

\* the buckets `range m.table` may visit (148-149)
present(m) == IF m.isNil THEN {} ELSE {h \in TMHashes : m.table[h].cap > 0}

\* the orders a range over a set of buckets may take
Orders(S) ==
    {o \in [1..Cardinality(S) -> S] : \A i, j \in 1..Cardinality(S) : o[i] = o[j] => i = j}

\* the keys of the live entries of a bucket, in order (150-153)
liveKeys(ents) ==
    LET lv == SelectSeq(ents, LAMBDA en : en.key # NilType)
    IN  [i \in 1..Len(lv) |-> lv[i].key]

\* M.Keys (161-167), the buckets taken in the given order
RECURSIVE keysIn(_, _)
keysIn(m, order) ==
    IF order = <<>> THEN <<>>
    ELSE liveKeys(m.table[Head(order)].ents) \o keysIn(m, Tail(order))

MKeys(m, order) == Result(m, keysIn(m, order), FALSE)

\* the live entries of the table
LiveEntries(m) ==
    UNION {{<<h, i>> : i \in DOMAIN m.table[h].ents \ holesOf(m.table[h].ents)} : h \in TMHashes}

Called(op, k, v, ret) == [op |-> op, key |-> k, value |-> v, ret |-> ret]

\* the map of New(M) or a nil *M, before any call
NoMap(isNil) ==
    [isNil |-> isNil, table |-> NilTable, length |-> 0, fault |-> FALSE,
     last |-> Called("new", NilType, NilValue, NilValue)]

\* an Iterate in progress: the buckets still to visit, the bucket being ranged
\* over (its hash, the length the range took, the entries consumed), whether the
\* table still holds the array being ranged over and, if not, that array,
\* whether the callback is running
NoHash == <<>>
NoIter ==
    [phase |-> "idle", todo |-> {}, cur |-> NoHash, len |-> 0, idx |-> 0, shared |-> TRUE,
     arr |-> <<>>, inF |-> FALSE, calls |-> 0, muts |-> 0, deleted |-> {}]

tmRest == <<ixVars, lpVars, emVars, lhVars, ndVars, sgVars, chVars, hsVars, geoVars, naVars, fpVars,
           brVars, vtVars>>

\* the outcome r of a call op(k, v) made outside Iterate
Returned(op, k, v, r) ==
    /\ tm' = [r.m EXCEPT !.fault = r.fault, !.last = Called(op, k, v, r.ret)]
    /\ it' = NoIter
    /\ UNCHANGED tmRest

Callable == ~tm.fault /\ it.phase # "run"

CallSet ==
    /\ Callable
    /\ \E k \in TMKeys, v \in TMValues : Returned("Set", k, v, MSet(tm, k, v))

CallDelete ==
    /\ Callable
    /\ \E k \in TMKeys : Returned("Delete", k, NilValue, MDelete(tm, k))

CallAt ==
    /\ Callable
    /\ \E k \in TMKeys : Returned("At", k, NilValue, MAt(tm, k))

CallLen ==
    /\ Callable
    /\ Returned("Len", NilType, NilValue, MLen(tm))

CallKeys ==
    /\ Callable
    /\ \E o \in Orders(present(tm)) : Returned("Keys", NilType, NilValue, MKeys(tm, o))

\* M.Iterate (147-149) is called
IterStart ==
    /\ Callable
    /\ it' = [NoIter EXCEPT !.phase = "run", !.todo = present(tm)]
    /\ tm' = [tm EXCEPT !.last = Called("Iterate", NilType, NilValue, NilValue)]
    /\ UNCHANGED tmRest

\* the entry the inner range reads next: from the array it ranges over
nextEntry == (IF it.shared THEN tm.table[it.cur].ents ELSE it.arr)[it.idx + 1]

\* M.Iterate (149-155): one step of the two loops
IterStep ==
    /\ ~tm.fault
    /\ it.phase = "run"
    /\ IF it.cur = NoHash
       THEN IF it.todo = {}
            THEN /\ it' = [it EXCEPT !.phase = "done", !.inF = FALSE]
                 /\ tm' = [tm EXCEPT !.last = Called("Iterate", NilType, NilValue, NilValue)]
            ELSE /\ \E h \in it.todo :
                       it' = [it EXCEPT !.todo = @ \ {h}, !.cur = h, !.idx = 0, !.shared = TRUE,
                                        !.arr = <<>>, !.len = Len(tm.table[h].ents),
                                        !.inF = FALSE]
                 /\ tm' = [tm EXCEPT !.last = Called("Iterate", NilType, NilValue, NilValue)]
       ELSE IF it.idx = it.len
            THEN /\ it' = [it EXCEPT !.cur = NoHash, !.idx = 0, !.len = 0, !.shared = TRUE,
                                     !.arr = <<>>, !.inF = FALSE]
                 /\ tm' = [tm EXCEPT !.last = Called("Iterate", NilType, NilValue, NilValue)]
            ELSE IF nextEntry.key = NilType
            THEN /\ it' = [it EXCEPT !.idx = @ + 1, !.inF = FALSE]
                 /\ tm' = [tm EXCEPT !.last = Called("Iterate", NilType, NilValue, NilValue)]
            ELSE /\ it' = [it EXCEPT !.idx = @ + 1, !.calls = @ + 1, !.inF = TRUE]
                 /\ tm' = [tm EXCEPT !.last = Called("f", nextEntry.key, nextEntry.value, NilValue)]
    /\ UNCHANGED tmRest

InCallback == ~tm.fault /\ it.phase = "run" /\ it.inF /\ it.muts < MaxCallbackOps

\* the callback calls Set
FSet ==
    /\ InCallback
    /\ \E k \in TMKeys, v \in TMValues :
          LET r == MSet(tm, k, v)
              h == HashOf[k]
              moved == r.m.table[h].cap # tm.table[h].cap
          IN  /\ tm' = [r.m EXCEPT !.last = Called("Set", k, v, r.ret)]
              /\ \E seen \in BOOLEAN :
                    it' = [it EXCEPT
                             !.muts = @ + 1,
                             !.deleted = {d \in @ : ~IsIdentical(d, k)},
                             !.shared = @ /\ ~(moved /\ h = it.cur),
                             !.arr = IF it.shared /\ moved /\ h = it.cur
                                     THEN tm.table[h].ents ELSE @,
                             !.todo = IF seen /\ tm.table[h].cap = 0 THEN @ \cup {h} ELSE @]
    /\ UNCHANGED tmRest

\* whether Iterate has yet to reach the entry at place i of the bucket of hash h
unreached(h, i) == h \in it.todo \/ (h = it.cur /\ i > it.idx)

\* the callback calls Delete
FDelete ==
    /\ InCallback
    /\ \E k \in TMKeys :
          LET r == MDelete(tm, k)
              h == HashOf[k]
              is == identAt(tm.table[h].ents, k)
          IN  /\ tm' = [r.m EXCEPT !.last = Called("Delete", k, NilValue, r.ret)]
              /\ it' = [it EXCEPT
                          !.muts = @ + 1,
                          !.deleted = IF r.ret /\ unreached(h, Min(is))
                                      THEN @ \cup {tm.table[h].ents[Min(is)].key} ELSE @]
    /\ UNCHANGED tmRest

InitTypeMap ==
    /\ \E isNil \in BOOLEAN : tm = NoMap(isNil)
    /\ it = NoIter
    /\ IndexIdle
    /\ LoopIdle
    /\ EmitterIdle
    /\ LoopHeaderIdle
    /\ VariantIdle
    /\ SeqIdle
    /\ HandlesIdle
    /\ HashIdle
    /\ GeoIdle
    /\ NameIdle
    /\ PathIdle
    /\ BrowserIdle
    /\ TreeIdle

NextTypeMap ==
    \/ CallSet
    \/ CallDelete
    \/ CallAt
    \/ CallLen
    \/ CallKeys
    \/ IterStart
    \/ IterStep
    \/ FSet
    \/ FDelete

SpecTypeMap == InitTypeMap /\ [][NextTypeMap]_vars


\* no bucket holds two live entries with identical keys
NoTwoLive ==
    \A h \in TMHashes : \A i, j \in DOMAIN tm.table[h].ents :
        (/\ i < j
         /\ tm.table[h].ents[i].key # NilType
         /\ tm.table[h].ents[j].key # NilType)
        => ~IsIdentical(tm.table[h].ents[i].key, tm.table[h].ents[j].key)

\* what a step does to the map as At shows it
MapStep ==
    LET was(k) == MAt(tm, k).ret
        is(k) == MAt(tm', k).ret
        c == tm'.last
    IN  /\ (c.op = "Set" /\ ~tm'.fault) =>
              /\ c.ret = was(c.key)
              /\ \A k \in TMKeys :
                    is(k) = IF IsIdentical(k, c.key) THEN c.value ELSE was(k)
        /\ c.op = "Delete" =>
              /\ c.ret = (was(c.key) # NilValue)
              /\ \A k \in TMKeys :
                    is(k) = IF IsIdentical(k, c.key) THEN NilValue ELSE was(k)
        /\ c.op = "At" => c.ret = was(c.key)
        /\ c.op \notin {"Set", "Delete"} => \A k \in TMKeys : is(k) = was(k)

\* C16: M is a map keyed by type identity: Set returns what At returned for the
\* key and makes At return the new value for every identical key and for no
\* other; Delete returns whether At returned a value and makes At return nil for
\* every identical key and changes no other; no other call changes what At
\* returns; and no two live entries have identical keys.
C16_MapKeyedByIdentity == []NoTwoLive /\ [][MapStep]_vars

\* Set with KeyP2 has replaced the value stored under the identical KeyP
C16_Witness ==
    /\ tm # <<>>
    /\ tm.last = Called("Set", KeyP2, "y", "x")
    /\ \E i \in DOMAIN tm.table[HashOf[KeyP]].ents :
          tm.table[HashOf[KeyP]].ents[i] = [key |-> KeyP, value |-> "y"]
    /\ MAt(tm, KeyP).ret = "y"

\* C17: Len is the number of live entries, and an Iterate whose callback leaves
\* the map alone calls it that many times.
C17_LenCountsLiveEntries ==
    /\ MLen(tm).ret = Cardinality(LiveEntries(tm))
    /\ (it.phase = "done" /\ it.muts = 0) => it.calls = MLen(tm).ret

\* Iterate has visited the two live entries of a bucket of three, one of them
\* set into the place a Delete freed
C17_Witness ==
    /\ tm # <<>>
    /\ it.phase = "done" /\ it.muts = 0 /\ it.calls = 2
    /\ Len(tm.table[HashOf[KeyP]].ents) = 3
    /\ holesOf(tm.table[HashOf[KeyP]].ents) = {3}
    /\ tm.table[HashOf[KeyP]].ents[1].key = KeyR

\* C18: the callback is never called for an entry that it deleted before Iterate
\* had reached it (and that was not set again since).
C18_DeletedNeverPassed ==
    (it.phase = "run" /\ tm.last.op = "f") =>
        \A d \in it.deleted : ~IsIdentical(d, tm.last.key)

\* C19: on a nil map At returns nil, Delete returns false, Len returns 0, Keys
\* returns an empty slice, Iterate never calls the callback, and none of them
\* faults.
C19_NilMapIsEmpty ==
    tm.isNil =>
        /\ tm.fault => tm.last.op = "Set"
        /\ tm.last.op = "At" => tm.last.ret = NilValue
        /\ tm.last.op = "Delete" => tm.last.ret = FALSE
        /\ tm.last.op = "Len" => tm.last.ret = 0
        /\ tm.last.op = "Keys" => tm.last.ret = <<>>
        /\ it.calls = 0

\* Iterate has run to its end on a nil map
C19_Witness ==
    /\ tm # <<>>
    /\ tm.isNil /\ ~tm.fault
    /\ it.phase = "done" /\ it.calls = 0
    /\ tm.last.op = "Iterate"


---------------------------------------------------------------------------
(* Geometry of the gui package (unnamed/part_003): points and rectangles.  *)
(* Coordinates are float64 in the code; the model takes the whole numbers  *)
(* of a small range, on which <= and < are the code's.                     *)

MaxCoord == 2
Coords == 0..MaxCoord

\* Pt (87-89)
Pt(X, Y) == [X |-> X, Y |-> Y]

\* the well-formed rectangles (91-97)
Rectangles ==
    {r \in [Min : [X : Coords, Y : Coords], Max : [X : Coords, Y : Coords]] :
        r.Min.X <= r.Max.X /\ r.Min.Y <= r.Max.Y}

\* Point.In (56-60)
PointIn(p, r) ==
    /\ r.Min.X <= p.X
    /\ p.X <= r.Max.X
    /\ r.Min.Y <= p.Y
    /\ p.Y <= r.Max.Y

geoRest == <<ixVars, lpVars, emVars, lhVars, ndVars, sgVars, chVars, hsVars, tmVars, naVars, fpVars,
           brVars, vtVars>>

\* p.In(r) is called
CallIn ==
    /\ ~geo.called
    /\ geo' = [geo EXCEPT !.called = TRUE, !.ret = PointIn(geo.p, geo.r)]
    /\ UNCHANGED geoRest

InitGeo ==
    /\ \E x \in Coords, y \in Coords, r \in Rectangles :
          geo = [p |-> Pt(x, y), r |-> r, called |-> FALSE, ret |-> FALSE]
    /\ IndexIdle
    /\ LoopIdle
    /\ EmitterIdle
    /\ LoopHeaderIdle
    /\ VariantIdle
    /\ SeqIdle
    /\ HandlesIdle
    /\ HashIdle
    /\ TypeMapIdle
    /\ NameIdle
    /\ PathIdle
    /\ BrowserIdle
    /\ TreeIdle

NextGeo == CallIn

SpecGeo == InitGeo /\ [][NextGeo]_vars

\* C20: p.In(r) is true exactly when p is among the points the Rectangle is
\* documented to contain: Min.X <= p.X < Max.X and Min.Y <= p.Y < Max.Y.
C20_InIffDocumentedContents ==
    geo.called =>
        (geo.ret <=> (/\ geo.r.Min.X <= geo.p.X /\ geo.p.X < geo.r.Max.X
                      /\ geo.r.Min.Y <= geo.p.Y /\ geo.p.Y < geo.r.Max.Y))


\* ZR, the zero Rectangle
ZR == [Min |-> Pt(0, 0), Max |-> Pt(0, 0)]

\* Rectangle.Empty (201-204)
Empty(r) == r.Min.X >= r.Max.X \/ r.Min.Y >= r.Max.Y

\* Rectangle.Overlaps (212-216)
Overlaps(r, s) ==
    /\ r.Min.X < s.Max.X
    /\ s.Min.X < r.Max.X
    /\ r.Min.Y < s.Max.Y
    /\ s.Min.Y < r.Max.Y

\* Rectangle.In (218-227)
RectIn(r, s) ==
    \/ Empty(r)
    \/ /\ s.Min.X <= r.Min.X
       /\ r.Max.X <= s.Max.X
       /\ s.Min.Y <= r.Min.Y
       /\ r.Max.Y <= s.Max.Y

\* Rectangle.Intersect (163-182)
Intersect(r, s) ==
    LET r1 == IF r.Min.X < s.Min.X THEN [r EXCEPT !.Min.X = s.Min.X] ELSE r
        r2 == IF r1.Min.Y < s.Min.Y THEN [r1 EXCEPT !.Min.Y = s.Min.Y] ELSE r1
        r3 == IF r2.Max.X > s.Max.X THEN [r2 EXCEPT !.Max.X = s.Max.X] ELSE r2
        r4 == IF r3.Max.Y > s.Max.Y THEN [r3 EXCEPT !.Max.Y = s.Max.Y] ELSE r3
    IN  IF r4.Min.X > r4.Max.X \/ r4.Min.Y > r4.Max.Y THEN ZR ELSE r4

\* r.Intersect(s) is called
CallIntersect ==
    /\ ~geo.called
    /\ geo' = [geo EXCEPT !.called = TRUE, !.ret = Intersect(geo.r, geo.s)]
    /\ UNCHANGED geoRest

InitIntersect ==
    /\ \E r \in Rectangles, s \in Rectangles :
          geo = [r |-> r, s |-> s, called |-> FALSE, ret |-> ZR]
    /\ IndexIdle
    /\ LoopIdle
    /\ EmitterIdle
    /\ LoopHeaderIdle
    /\ VariantIdle
    /\ SeqIdle
    /\ HandlesIdle
    /\ HashIdle
    /\ TypeMapIdle
    /\ NameIdle
    /\ PathIdle
    /\ BrowserIdle
    /\ TreeIdle

NextIntersect == CallIntersect

SpecIntersect == InitIntersect /\ [][NextIntersect]_vars

\* C21: r.Intersect(s) is contained in r and in s and contains every rectangle
\* contained in both, and it is ZR whenever r and s do not overlap.
C21_IntersectLargestOrZero ==
    geo.called =>
        /\ RectIn(geo.ret, geo.r)
        /\ RectIn(geo.ret, geo.s)
        /\ \A q \in Rectangles : (RectIn(q, geo.r) /\ RectIn(q, geo.s)) => RectIn(q, geo.ret)
        /\ ~Overlaps(geo.r, geo.s) => geo.ret = ZR


---------------------------------------------------------------------------
(* Further claims about the index node, checked under SpecIndex *)

\* C22 as stated: with the container input unconnected the key input's type is
\* int unless the key input is connected, and the value type is the wildcard
\* unless, in write mode, the write-value input is connected.
C22_KeyDefaultsToInt ==
    ixConn.x = NoConn =>
        /\ ix.keyT = IF hasSrc(ixConn.key) THEN ixConn.key ELSE TInt
        /\ ix.valT = IF ix.set /\ hasSrc(ixConn.inVal) THEN ixConn.inVal ELSE generic

\* C22, amended: with the container input unconnected the key input's type is
\* the wildcard unless the key input is connected (then the key source's type),
\* and the value type is the wildcard unless, in write mode, the write-value
\* input is connected (then that source's type); the container's type is the
\* wildcard.
C22_KeyDefaultsToWildcard ==
    ixConn.x = NoConn =>
        /\ ix.xT = generic
        /\ ix.keyT = IF hasSrc(ixConn.key) THEN ixConn.key ELSE generic
        /\ ix.valT = IF ix.set /\ hasSrc(ixConn.inVal) THEN ixConn.inVal ELSE generic

\* a write-mode node, re-derived after its container was disconnected, with
\* only the write value connected
C22_Witness ==
    /\ ix.set
    /\ ixConn = [x |-> NoConn, key |-> NoConn, inVal |-> TString]
    /\ ix.keyT = generic
    /\ ix.valT = TString
    /\ ixBlkConns = {}


---------------------------------------------------------------------------
(* Generation for the graph with the nested scope: the function block F     *)
(* holds the inputsNode 0, the call node 1 and the if node, whose branch    *)
(* block B holds call node 5, convert 6.                                    *)

\* the node of block b that stands for node n when b orders its nodes: a node
\* of the branch block is stood for by the if node that holds the block
nodeIn(b, n) == IF b = "F" /\ n \in InnerNodes THEN IfNode ELSE n

nodesOf(b) == IF b = "F" THEN {0, 1, IfNode} ELSE InnerNodes

\* the connections that order the nodes of block b
orderConns(cs, b) ==
    LET lifted == {[c EXCEPT !.src = <<nodeIn(b, c.src[1]), c.src[2]>>,
                             !.dst = <<nodeIn(b, c.dst[1]), c.dst[2]>>] : c \in cs}
    IN  {d \in lifted : /\ srcNode(d) \in nodesOf(b)
                        /\ dstNode(d) \in nodesOf(b)
                        /\ srcNode(d) # dstNode(d)}

\* b.nodeOrder()
blockOrder(cs, b) == topoOrder(orderConns(cs, b), <<>>, nodesOf(b))

\* b.conns
blockConns(cs, b) == {c \in cs : connBlock(c) = b}

RECURSIVE blockIn(_, _, _, _, _, _)
RECURSIVE walkIn(_, _, _, _, _)

\* writer.block 410-429 for the if node: one branch, its condition unconnected
ifStmt(w, cs, vs, ord) ==
    With(indent(w, "if false {"), LAMBDA w1 :
    With([w1 EXCEPT !.stmts = Append(@,
             [n |-> IfNode, line |-> Len(w1.src), args |-> <<>>, results |-> <<>>,
              existing |-> <<>>])], LAMBDA w2 :
    With(blockIn(w2, cs, {}, vs, "B", ord), LAMBDA w3 :
        indent(w3, "}"))))

\* writer.block 229 for the nodes of a block that may hold the if node
walkIn(w, cs, vs, order, ord) ==
    IF order = <<>> THEN w
    ELSE With(IF Head(order) = IfNode THEN ifStmt(w, cs, vs, ord)
              ELSE emitNode(w, cs, vs, Head(order), ord), LAMBDA w1 :
             walkIn(w1, cs, vs, Tail(order), ord))

\* writer.block(b, vars) for block b with local variables lv
blockIn(w, cs, lv, vs, b, ord) ==
    With(blockOrder(cs, b), LAMBDA order :
    With([w EXCEPT !.nindent = @ + 1, !.walked = @ \o order], LAMBDA w1 :
    With(declLocals(w1, Range(NameSeq(lv), ord.locals)), LAMBDA w2 :
    With(declConns(w2, vs, Range(ConnSeq(blockConns(cs, b)), orderOf(ord.conns, b))),
         LAMBDA d :
    With([d.w EXCEPT !.reads = d.vars], LAMBDA w3 :
    With(walkIn(w3, cs, d.vars, order, ord), LAMBDA w4 :
        [w4 EXCEPT !.nindent = @ - 1]))))))

\* writer.fun(f, vars) and saveFunc(f) for this graph
funIn(w, cs, lv, ord) ==
    With(wName(w, ParamName), LAMBDA r :
    With(<<<<OutPort(<<0, 1>>), r.r>>>>, LAMBDA vs :
    With(indentDecl(r.w, r.r,
             "func " \o "main" \o "(" \o r.r \o " " \o typ(r.w, TInt) \o ") (" \o ") {"),
         LAMBDA w1 :
    With(blockIn(w1, cs, lv, vs, "F", ord), LAMBDA w2 :
        indent(w2, "}")))))

saveFuncIn(cs, lv, ord) ==
    With(newWriter, LAMBDA w0 :
    With(namePkgs(w0, Range(pkgRefs, ord.pkgs)), LAMBDA w1 :
    With([w1 EXCEPT !.src = <<>>], LAMBDA buf :
    With(funIn(buf, cs, lv, ord), LAMBDA w2 :
        [w2 EXCEPT !.src = w1.src \o imports(w2, ord.imps) \o w2.src]))))

\* connect(src, dst) of an output to an input of the nested graph
ScopeConnect ==
    \E s \in {0} \cup ScopeCalls, d \in ScopeCalls :
        /\ s # d
        /\ nin[d] >= 1
        /\ DataConn(s, d) \notin conns
        /\ conns' = {c \in conns : c.dst # <<d, 1>>} \cup {DataConn(s, d)}
        /\ Cardinality(conns') <= MaxConns
        /\ Edited

ScopeDisconnect ==
    \E c \in conns :
        /\ conns' = conns \ {c}
        /\ Edited

ScopeGenerate ==
    /\ gen = 0
    /\ \E ord \in RangeOrders(conns, localVars) : out' = saveFuncIn(conns, localVars, ord)
    /\ gen' = 1
    /\ UNCHANGED <<nin, conns, localVars>>
    /\ UNCHANGED <<ixVars, lpVars, moreVars>>

InitScope ==
    /\ nin \in [ScopeCalls -> {0, 1}]
    /\ nin[ConvertNode] = 1
    /\ localVars \in LocalVarChoices
    /\ conns = {}
    /\ gen = 0
    /\ out = NoOut
    /\ IndexIdle
    /\ LoopIdle
    /\ MoreIdle

NextScope ==
    \/ ScopeConnect
    \/ ScopeDisconnect
    \/ ScopeGenerate

SpecScope == InitScope /\ [][NextScope]_vars

---------------------------------------------------------------------------
(* Claims about generation across scopes, checked under SpecScope *)

\* the lines of the last generation's text
Lines == 1..Len(out.src)

\* the line that closes the if statement, and the lines of its branch block
CloseLine == CHOOSE j \in Lines : j > LineOf(IfNode) /\ out.src[j] = Tabs(1) \o "}"
InBranch(j) == Walked(IfNode) /\ LineOf(IfNode) < j /\ j < CloseLine

\* the indentation of the statements of the block a node is in
depthOf(n) == IF blockOf(n) = "B" THEN 2 ELSE 1

\* the statement of node n was written
Emitted(n) == Walked(n) /\ StmtOf(n).line # 0

\* line j declares identifier x in a block's prologue
DeclaresAt(j, x) ==
    out.src[j] = Tabs(IF InBranch(j) THEN 2 ELSE 1) \o "var " \o x \o " " \o typ(out, TInt)

\* line j assigns to x: a name, or what it points to, with or without the
\* text of a hidden connection
AssignsTo(j, x) ==
    \E r \in Elems(out.allocs), t \in 1..2, star \in {"", "*"}, note \in {"", "//t"} :
        out.src[j] = Tabs(t) \o x \o " = " \o star \o r \o note

\* the connections that order block b's nodes form a cycle
CycleIn(b) ==
    \E n \in nodesOf(b) : n \in ReachN(orderConns(conns, b), {n}, Cardinality(nodesOf(b)))

\* the statement of connection c's consumer reads an identifier a prologue
\* declared, the producer's statement (the header, for the parameter)
\* declared the producer's name, and the one assignment to the identifier
\* copies that name into it between the two statements
ReadsDeclaredCopy(c) ==
    LET x == ReadName(c)
        s == srcNode(c)
        d == dstNode(c)
    IN  /\ x # ""
        /\ StmtOf(d).args = <<x>>
        /\ Walked(s)
        /\ Emitted(s)
        /\ Len(StmtOf(s).results) = 1
        /\ \E i \in 1..Len(out.decls) : out.decls[i] = StmtOf(s).results[1]
        /\ \E j, k \in Lines :
              /\ DeclaresAt(j, x)
              /\ InBranch(j) => InBranch(LineOf(d))
              /\ j < k
              /\ LineOf(s) < k
              /\ \A n \in nodesOf("F") \cup nodesOf("B") :
                    Emitted(n) => ~(LineOf(s) < LineOf(n) /\ LineOf(n) < k)
              /\ k < LineOf(d)
              /\ InBranch(j) => InBranch(k)
              /\ \E star \in {"", "*"}, note \in {"", "//" \o ConnText(c)} :
                    out.src[k] = Tabs(depthOf(s)) \o x \o " = " \o star
                                 \o StmtOf(s).results[1] \o note
              /\ \A m \in Lines \ {k} : ~AssignsTo(m, x)

\* C23: in a graph whose blocks have no cycle (a cycle leaves its nodes out of
\* the order), for every data connection whose consumer is emitted, the
\* consumer's statement reads an identifier that a prologue declared earlier
\* in a block enclosing the consumer; the producer's statement (or the
\* function header, for the parameter) declares the producer's own fresh
\* name, and one of the assignments that trail the producer's statement (no
\* other node's statement comes between), the only assignment to the
\* identifier in the text, copies the fresh name into it within the
\* declaration's scope and before the consumer's statement; no line of the
\* text is an assignment with an empty left-hand side.
C23_ReadsDeclaredNameHoldingResult ==
    Generated =>
        /\ \A c \in conns :
              (Emitted(dstNode(c)) /\ ~CycleIn("F") /\ ~CycleIn("B")) => ReadsDeclaredCopy(c)
        /\ \A j \in Lines : ~AssignsTo(j, "")

\* what holds: the same, for the connections whose producer's statement was
\* written
ReadsDeclaredNameOfWrittenProducer ==
    Generated =>
        /\ \A c \in conns :
              (Emitted(dstNode(c)) /\ Emitted(srcNode(c)) /\ ~CycleIn("F") /\ ~CycleIn("B"))
                  => ReadsDeclaredCopy(c)
        /\ \A j \in Lines : ~AssignsTo(j, "")

\* the convert node's input is unconnected and its output feeds the call node
\* of the function block: no conversion is written, and the line that copies
\* its result is
C23_CopyOfSkippedProducer ==
    /\ Generated
    /\ conns = {DataConn(ConvertNode, 1)}
    /\ Emitted(1) /\ ~Emitted(ConvertNode)
    /\ \E j \in Lines :
          /\ InBranch(j)
          /\ out.src[j] = Tabs(2) \o ReadName(DataConn(ConvertNode, 1)) \o " = "
                           \o StmtOf(ConvertNode).results[1]

\* a pointer result is copied through a dereference, and a hidden connection
\* leaves its text after the copy
CopiesDerefAndHidden ==
    /\ Generated
    /\ conns = {DataConn(0, 5), DataConn(5, 1)}
    /\ \E j \in Lines :
          out.src[j] = Tabs(2) \o ReadName(DataConn(5, 1)) \o " = *" \o StmtOf(5).results[1]
    /\ \E j \in Lines :
          out.src[j] = Tabs(1) \o ReadName(DataConn(0, 5)) \o " = " \o ParamName \o "//t"

---------------------------------------------------------------------------
(* The arguments of a node (writer.block 232-251), for the index node: its *)
(* inputs are the container x, the key and, in write mode, the value.      *)

\* the containers connected to x in this specification
ArgSrcTypes ==
    { Slice(TInt), Slice(Pointer(TInt)), Slice(Slice(TInt)), Slice(Named("N", TInt)),
      Named("S", Slice(TInt)), Array(TInt), Pointer(Array(TInt)),
      Map(TString, TInt), Map(TString, Map(TString, TInt)), Map(Named("K", TString), TInt),
      Map(TString, Pointer(Named("File", <<"struct", <<>>>>))), Map(TString, Chan(TInt)) }

\* the writer when the node is reached: the function refers to package os
ArgWriter == [pkgNames |-> <<<<OsPkg, "os">>>>]

\* ins(n) for the index node: for every input vars[in] ("" when the input has
\* no connection) and in.obj.Type
indexIns(n, c) ==
    LET in(f, nm, t) == [name |-> IF c[f] # NoConn THEN nm ELSE "", t |-> t]
    IN  <<in("x", "a", n.xT), in("key", "k", n.keyT)>>
        \o (IF n.set THEN <<in("inVal", "e", n.valT)>> ELSE <<>>)

\* the identifiers in use when the node is reached: those of the connected
\* inputs and of the result
ArgNames == seedNames(EmptyNames, <<"a", "k", "e", "x">>)

\* writer.block 240-249 for one unconnected input of type t: the argument and
\* the declaration written for it, if any; panicked when w.typ has no case
\* for the type (630)
zeroArg(names, t) ==
    LET u == underlying(t) IN
    CASE u = NilType -> [names |-> names, args |-> <<>>, lines |-> <<>>, panicked |-> FALSE]
      [] Kind(u) \in {"slice", "map", "func", "sig"} ->
            [names |-> names, args |-> <<"nil">>, lines |-> <<>>, panicked |-> FALSE]
      [] OTHER ->
            LET r == name(names, "v")
            IN  IF typPanics(u)
                THEN [names |-> r.names, args |-> <<>>, lines |-> <<>>, panicked |-> TRUE]
                ELSE [names |-> r.names, args |-> <<r.r>>,
                      lines |-> <<"var " \o r.r \o " " \o typ(ArgWriter, u)>>,
                      panicked |-> FALSE]

\* writer.block 232-251: the loop over the inputs, as far as it gets
RECURSIVE blockArgs(_, _, _, _, _)
blockArgs(names, ins, i, args, lines) ==
    IF i > Len(ins) THEN [args |-> args, lines |-> lines, panicked |-> FALSE]
    ELSE IF ins[i].name # ""
    THEN blockArgs(names, ins, i + 1, Append(args, ins[i].name), lines)
    ELSE LET z == zeroArg(names, ins[i].t)
         IN  IF z.panicked THEN [args |-> args, lines |-> lines, panicked |-> TRUE]
             ELSE blockArgs(z.names, ins, i + 1, args \o z.args, lines \o z.lines)

\* the ok connections, listed
RECURSIVE IdSeq(_)
IdSeq(S) ==
    IF S = {} THEN <<>>
    ELSE LET i == CHOOSE x \in S : \A y \in S : x <= y IN <<i>> \o IdSeq(S \ {i})

\* writer.results (499-528) for the index node: the value output, named x when
\* a connection reads it into the variable d, and the ok output, named ok when
\* the connections okc read it, connection i into the variable o<i>
indexResults(n, outConnected, okc) ==
    LET okConnected == n.ok /\ okc # {}
        oks == IdSeq(okc)
    IN  IF n.set \/ ~(outConnected \/ okConnected)
        THEN [results |-> <<>>, existing |-> <<>>]
        ELSE [results |-> <<IF outConnected THEN "x" ELSE "_">>
                          \o (IF n.ok THEN <<IF okConnected THEN "ok" ELSE "_">> ELSE <<>>),
              existing |-> (IF outConnected THEN <<<<"d", "x">>>> ELSE <<>>)
                           \o (IF okConnected
                               THEN [i \in 1..Len(oks) |-> <<"o" \o ToString(oks[i]), "ok">>]
                               ELSE <<>>)]

\* w.assignExisting(m) (555-559), its range over m in the order q
existingLines(m, q) ==
    LET r == Range(m, q) IN [i \in 1..Len(r) |-> r[i][1] \o " = " \o r[i][2]]

\* writer.block for the index node (218-228, 232-252, 317-327, 387): the
\* variable of a connected input is declared in the block's prologue, as the
\* input's type; then come the declarations of the arguments, the line of the
\* node, which w.seq ends whether or not a statement was written, and the
\* assignments to the variables that read the outputs.  fault is a panic of
\* w.typ, or an index out of range on args; stmt is the number of the node's
\* line
emitIndex(n, c, outConnected, okc, q) ==
    LET ins == indexIns(n, c)
        a == blockArgs(ArgNames, ins, 1, <<>>, <<>>)
        r == indexResults(n, outConnected, okc)
        reads == IF n.set THEN 3 ELSE IF Len(r.results) > 0 THEN 2 ELSE 0
    IN  IF \E i \in 1..Len(ins) : ins[i].name # "" /\ typPanics(ins[i].t)
        THEN [lines |-> <<>>, args |-> <<>>, results |-> <<>>, stmt |-> 0,
              out |-> outConnected, fault |-> TRUE]
        ELSE IF a.panicked \/ Len(a.args) < reads
        THEN [lines |-> a.lines, args |-> a.args, results |-> r.results, stmt |-> 0,
              out |-> outConnected, fault |-> TRUE]
        ELSE [lines |-> a.lines \o <<indexStmt(n, a.args, r.results)>>
                        \o existingLines(r.existing, q),
              args |-> a.args, results |-> r.results, stmt |-> Len(a.lines) + 1,
              out |-> outConnected, fault |-> FALSE]

\* writer.block reaches the index node, whatever inputs are connected
EmitIndex ==
    /\ \E outConnected \in BOOLEAN, q \in Perms(MaxOkConns + 1) :
          /\ outConnected => ~ix.set
          /\ ixStmt' = emitIndex(ix, ixConn, outConnected, ixOkConns, q)
    /\ ixStmt' # ixStmt
    /\ UNCHANGED <<ix, ixConn, ixOkConns, ixBlkConns>>
    /\ UNCHANGED <<lpVars, emVars, moreVars>>

NextIndex ==
    \/ ConnectX
    \/ DisconnectX
    \/ ConnectKey
    \/ DisconnectKey
    \/ ConnectInVal
    \/ DisconnectInVal
    \/ ConnectOk
    \/ EmitIndex

SpecIndex == InitIndex /\ [][NextIndex]_vars

ArgsConnectX == \E t \in ArgSrcTypes : t # ixConn.x /\ IndexChange("x", t)

NextArgs ==
    \/ ArgsConnectX
    \/ DisconnectX
    \/ ConnectKey
    \/ DisconnectKey
    \/ ConnectInVal
    \/ DisconnectInVal
    \/ EmitIndex

SpecArgs == InitIndex /\ [][NextArgs]_vars


\* the inputs of the index node as writer.block last met them; the node was
\* emitted when the generation did not panic on an input of no known type
EmittedArgs == ixStmt # <<>> /\ ~ixStmt.fault
ArgIns == indexIns(ix, ixConn)

\* a type whose unconnected input is passed as the literal nil
RefLike(t) == Kind(underlying(t)) \in {"slice", "map", "func", "sig"}

\* the line of the node follows the declarations of its arguments and reads
\* the arguments in place
StmtLast ==
    /\ Len(ixStmt.args) = Len(ArgIns)
    /\ ixStmt.lines[ixStmt.stmt] = indexStmt(ix, ixStmt.args, ixStmt.results)

\* input i is unconnected and was given a variable declared as type T(i)
\* before the statement, under a name no other argument has
ZeroVariable(i, T(_)) ==
    /\ ixStmt.args[i] \notin {"a", "k", "e", "x", "nil", ""}
    /\ \A j \in 1..Len(ixStmt.args) : j # i => ixStmt.args[j] # ixStmt.args[i]
    /\ \E j \in 1..Len(ixStmt.lines) :
          /\ ixStmt.lines[j] = "var " \o ixStmt.args[i] \o " " \o typ(ArgWriter, T(i))
          /\ j < ixStmt.stmt

InputType(i) == ArgIns[i].t
InputUnderlying(i) == underlying(ArgIns[i].t)

\* C24: when the index node is emitted, every unconnected input whose type is
\* known is passed as the literal nil if the type is a slice, map or function
\* type, and otherwise as a fresh variable declared, as the input's type,
\* before the node's statement; a read-mode node on a slice with the key
\* unconnected and the output connected is written as the declaration of an
\* int key and the statement taking the element's address.
C24_ZeroVariableOfInputType ==
    EmittedArgs =>
        /\ StmtLast
        /\ \A i \in 1..Len(ArgIns) :
              (ArgIns[i].name = "" /\ ArgIns[i].t \notin {generic, NilType}) =>
                  IF RefLike(ArgIns[i].t) THEN ixStmt.args[i] = "nil"
                  ELSE ZeroVariable(i, InputType)
        /\ (~ix.set /\ Kind(underlying(ix.xT)) = "slice" /\ ixConn.key = NoConn /\ ixStmt.out) =>
              /\ ixStmt.lines = <<"var v int", "x := &a[v]", "d = x">>
              /\ Kind(ix.valT) = "ptr"

\* what the code does: the variable is declared as the underlying type of the
\* input's type
C24_ZeroVariableOfUnderlyingType ==
    EmittedArgs =>
        /\ StmtLast
        /\ \A i \in 1..Len(ArgIns) :
              (ArgIns[i].name = "" /\ ArgIns[i].t \notin {generic, NilType}) =>
                  IF RefLike(ArgIns[i].t) THEN ixStmt.args[i] = "nil"
                  ELSE ZeroVariable(i, InputUnderlying)
        /\ (~ix.set /\ Kind(underlying(ix.xT)) = "slice" /\ ixConn.key = NoConn /\ ixStmt.out) =>
              /\ ixStmt.lines = <<"var v int", "x := &a[v]", "d = x">>
              /\ Kind(ix.valT) = "ptr"

\* a write to a map keyed by the named type K with key and value unconnected
C24_NamedKeyWitness ==
    /\ EmittedArgs
    /\ ix.set /\ ixConn = [x |-> Map(Named("K", TString), TInt), key |-> NoConn, inVal |-> NoConn]
    /\ ixStmt.lines = <<"var v string", "var v2 int", "a[v] = v2">>

---------------------------------------------------------------------------
(* The loop node through its input's changes (loop.go) and its emission    *)
(* (writer.block 430-489): the names bound for the loop's block.           *)

\* n.input.connsChanged: the input's connection becomes c; a value output
\* that is removed is no longer among inputsNode.outs, connected or not
LoopInputChanged ==
    \E c \in LoopSrcTypes \cup {NilSrc, NoConn} :
        LET r == loopConnsChanged([t |-> lh.t, nouts |-> lh.nouts], c)
        IN  /\ (r.t # lh.t \/ r.nouts # lh.nouts)
            /\ lh' = [lh EXCEPT !.t = r.t, !.nouts = r.nouts, !.valConn = @ /\ r.nouts = 2]
            /\ UNCHANGED <<lhOut, lhPrev>>
            /\ UNCHANGED lhRest

NextLoopBind ==
    \/ LoopInputChanged
    \/ LoopBindKey
    \/ LoopBindVal
    \/ LoopGenerate

SpecLoopBind == InitLoopHeader /\ [][NextLoopBind]_vars

\* the names emission placed in the binding context of the loop's block
\* (writer.block 478-483)
BoundNames == {lhOut.key, lhOut.val} \ {"_"}

\* the header written declares x
HeaderDeclares(x) ==
    LET in == IF lhOut.g.t = <<"nil">> THEN "" ELSE LoopInName
        hd == lhOut.lines[1]
    IN  \/ hd = "\tfor " \o x \o " := " \o typ(NoPkgs, lhOut.g.t) \o "(0); " \o x \o " < " \o in
                \o "; " \o x \o "++ {"
        \/ hd = "\tfor " \o x \o " := range " \o in \o " {"
        \/ \E o \in {lhOut.key, lhOut.val} \ {x} :
              \/ hd = "\tfor " \o x \o ", " \o o \o " := range " \o in \o " {"
              \/ hd = "\tfor " \o o \o ", " \o x \o " := range " \o in \o " {"
        \/ hd = "\tfor " \o x \o " := 0;; " \o x \o "++ {"

\* the element declaration at the top of the body declares x from element k
ElementDeclares(x, k) ==
    /\ Len(lhOut.lines) = 2
    /\ \E amp \in {"", "&"} :
          lhOut.lines[2] = "\t\tvar " \o x \o " = " \o amp \o LoopInName \o "[" \o k \o "]"

\* every bound name is declared, and an element declaration indexes the input
\* by a declared key
BindingsDeclared ==
    /\ \A x \in BoundNames : HeaderDeclares(x) \/ ElementDeclares(x, lhOut.key)
    /\ (Kind(underlying(lhOut.g.t)) \in {"array", "ptr", "slice"} /\ lhOut.val # "_") =>
          /\ ElementDeclares(lhOut.val, lhOut.key)
          /\ lhOut.key # "_"
          /\ HeaderDeclares(lhOut.key)

\* C25: whatever the type of the loop's input, each name emission binds for
\* the loop's block (the key and, when connected, the value) is declared by
\* the header written or by the element declaration under it, and for an
\* array, pointer or slice with the value connected the element declaration
\* indexes the input by a declared key, never by the blank identifier.
C25_BindingsDeclared == lhOut # NoHeader => BindingsDeclared

\* the same for every loop but one whose value output is connected while its
\* input has a type the writer has no loop form for
C25_BindingsDeclaredWhereLoopFormExists ==
    (/\ lhOut # NoHeader
     /\ ~(/\ lhOut.val # "_"
          /\ Kind(underlying(lhOut.g.t)) \notin {"basic", "array", "ptr", "slice", "map", "chan"}))
        => BindingsDeclared

\* a slice with only the value connected: the key is named for the element
\* declaration
C25_SliceValueWitness ==
    /\ lhOut # NoHeader
    /\ lhOut.g.t = Slice(TInt) /\ ~lhOut.g.keyConn /\ lhOut.g.valConn
    /\ lhOut.key \notin {"_", ""}
    /\ ElementDeclares(lhOut.val, lhOut.key)

---------------------------------------------------------------------------
(* The conditional node (writer.block 410-429): n.blocks and n.cond, one   *)
(* condition input per branch block.  A branch is [cond |-> its condition  *)
(* input is connected, nodes |-> the number of nodes in its block]; a node *)
(* of a branch block is a call without arguments or results.               *)

MaxBranches == 3        \* branch blocks of the conditional node

\* vars[cond] for the connected condition of branch i
CondName(i) == "c" \o ToString(i)

\* the text written for the condition of branch i
CondText(b, i) == IF b[i].cond THEN CondName(i) ELSE "false"

\* w.block(b, vars) for a branch block, one level inside the conditional
branchBody(b, i) == IF b[i].nodes > 0 THEN <<"\t\tf()">> ELSE <<>>

\* a plausible slip: the older writer's rule (part_002:369), an else branch is
\* written only if its block holds a node
branchWrittenIfNodes(b, i) == ~(i > 1 /\ i = Len(b) /\ ~b[i].cond /\ b[i].nodes = 0)

\* writer.block 412: for i, b := range n.blocks, every branch is written
branchWritten(b, i) == TRUE

\* writer.block 410-429: the lines of the chain and, for every branch written,
\* the line its header is on; cur is the line being written
RECURSIVE ifChain(_, _, _, _, _)
ifChain(b, i, cur, lines, heads) ==
    IF i > Len(b) THEN [lines |-> Append(lines, cur), heads |-> heads]
    ELSE IF ~branchWritten(b, i) THEN ifChain(b, i + 1, cur, lines, heads)
    ELSE LET hd == cur \o (IF i > 1 THEN " else " ELSE "")
                   \o (IF i = 1 \/ i < Len(b) \/ b[i].cond
                       THEN "if " \o CondText(b, i) ELSE "")
                   \o " {"
         IN  ifChain(b, i + 1, "\t}", Append(lines, hd) \o branchBody(b, i),
                     Append(heads, [branch |-> i, line |-> Len(lines) + 1]))

emitIf(n) ==
    LET c == ifChain(n.blocks, 1, "\t", <<>>, <<>>)
    IN  [n |-> n, lines |-> c.lines, heads |-> c.heads]

\* a condition input is connected or disconnected
IfBindCond ==
    \E i \in 1..Len(nd.blocks) :
        /\ nd' = [nd EXCEPT !.blocks[i].cond = ~@]
        /\ UNCHANGED ndOut
        /\ UNCHANGED ndRest

\* a node is added to a branch block, or its node is deleted
IfEditBlock ==
    \E i \in 1..Len(nd.blocks) :
        /\ nd' = [nd EXCEPT !.blocks[i].nodes = 1 - @]
        /\ UNCHANGED ndOut
        /\ UNCHANGED ndRest

\* the definition is generated: writer.block reaches the conditional node
IfEmit ==
    /\ ndOut.n # nd
    /\ ndOut' = emitIf(nd)
    /\ UNCHANGED nd
    /\ UNCHANGED ndRest

InitIf ==
    /\ \E k \in 1..MaxBranches :
          nd = [blocks |-> [i \in 1..k |-> [cond |-> FALSE, nodes |-> 0]]]
    /\ ndOut = NoVariant
    /\ IndexIdle
    /\ LoopIdle
    /\ EmitterIdle
    /\ LoopHeaderIdle
    /\ SeqIdle
    /\ HandlesIdle
    /\ HashIdle
    /\ TypeMapIdle
    /\ GeoIdle
    /\ NameIdle
    /\ PathIdle
    /\ BrowserIdle
    /\ TreeIdle

NextIf ==
    \/ IfBindCond
    \/ IfEditBlock
    \/ IfEmit

SpecIf == InitIf /\ [][NextIf]_vars

IfEmitted == ndOut # NoVariant
Branches == ndOut.n.blocks

\* the header of a branch of the chain, as the chain requires it
ChainHeader(i) ==
    IF i = 1 THEN "\tif " \o CondText(Branches, 1) \o " {"
    ELSE IF i < Len(Branches) \/ Branches[i].cond
    THEN "\t} else if " \o CondText(Branches, i) \o " {"
    ELSE "\t} else  {"

\* the chain written has the headers of the branches in bs, in order, each
\* followed by its block's text, and is closed after the last
ChainOf(bs) ==
    /\ Len(ndOut.heads) = Len(bs)
    /\ \A j \in 1..Len(bs) :
          LET h == ndOut.heads[j]
              next == IF j < Len(bs) THEN ndOut.heads[j + 1].line ELSE Len(ndOut.lines)
          IN  /\ h.branch = bs[j]
              /\ ndOut.lines[h.line] = ChainHeader(bs[j])
              /\ SubSeq(ndOut.lines, h.line + 1, next - 1) = branchBody(Branches, bs[j])
    /\ ndOut.lines[Len(ndOut.lines)] = "\t}"

\* the last branch is there only to be an else and its block is empty
EmptyTrailing ==
    /\ Len(Branches) > 1
    /\ ~Branches[Len(Branches)].cond
    /\ Branches[Len(Branches)].nodes = 0

\* C26 as stated: the chain is if / else if / else, the first and every
\* non-last branch with an if (false when the condition is unconnected), the
\* last a bare else only when its condition is unconnected, and an empty
\* trailing branch is left out of the text.
C26_ChainOmitsEmptyTrailing ==
    IfEmitted =>
        IF EmptyTrailing THEN ChainOf([j \in 1..(Len(Branches) - 1) |-> j])
        ELSE ChainOf([j \in 1..Len(Branches) |-> j])

\* C26 as amended: the chain is if / else if / else as above and every branch
\* is written, an empty trailing branch included.
C26_ChainOfEveryBranch ==
    IfEmitted => ChainOf([j \in 1..Len(Branches) |-> j])

\* three branches: the second has its condition unconnected and is written
\* with false, the third is an empty bare else, and it is written
C26_Witness ==
    /\ IfEmitted
    /\ Len(Branches) = 3
    /\ Branches[1].cond /\ ~Branches[2].cond /\ EmptyTrailing
    /\ Branches[1].nodes = 1
    /\ ndOut.lines = <<"\tif c1 {", "\t\tf()", "\t} else if false {", "\t} else  {", "\t}">>

---------------------------------------------------------------------------
(* writer.name, call by call (writer.go 561-571): every activation of the  *)
(* function is one step, so that a call that never returns is a behaviour  *)
(* that never leaves the phase "running".                                  *)

MaxNameCalls == 3       \* calls of name on one writer

\* the candidates name is called with
NameCandidates == {"", "_", "x2", "v", "v2"}

\* a plausible slip: the candidate is used as it is, empty or not
nameFrameAsGiven(names, s) ==
    IF s \in DOMAIN names
    THEN [names |-> [names EXCEPT ![s] = @ + 1], done |-> FALSE, base |-> s,
          s |-> s \o ToString(names[s]), suffix |-> <<names[s]>>]
    ELSE [names |-> names @@ (s :> 2), done |-> TRUE, base |-> s, s |-> s, suffix |-> <<>>]

\* one activation of name(s): either it returns s (done), or it counts the
\* collision and calls name on the suffixed candidate
nameFrame(names, s) ==
    LET s1 == IF s = "" \/ s = "_" THEN "x" ELSE s IN
    IF s1 \in DOMAIN names
    THEN [names |-> [names EXCEPT ![s1] = @ + 1], done |-> FALSE, base |-> s1,
          s |-> s1 \o ToString(names[s1]), suffix |-> <<names[s1]>>]
    ELSE [names |-> names @@ (s1 :> 2), done |-> TRUE, base |-> s1, s |-> s1, suffix |-> <<>>]

naRest == <<ixVars, lpVars, emVars, lhVars, ndVars, sgVars, chVars, hsVars, tmVars, geoVars, fpVars,
           brVars, vtVars>>

\* w.name(c) is called
NameCall ==
    /\ na.phase = "idle"
    /\ na.calls < MaxNameCalls
    /\ \E c \in NameCandidates :
          na' = [na EXCEPT !.phase = "running", !.calls = @ + 1, !.arg = c, !.s = c,
                           !.before = na.names, !.base = "", !.trail = <<>>, !.r = ""]
    /\ UNCHANGED naRest

\* the activation of name at the top of the stack runs
NameStep ==
    /\ na.phase = "running"
    /\ LET f == nameFrame(na.names, na.s)
       IN  na' = [na EXCEPT !.names = f.names,
                            !.phase = IF f.done THEN "idle" ELSE "running",
                            !.s = f.s,
                            !.base = IF na.trail = <<>> THEN f.base ELSE @,
                            !.trail = @ \o f.suffix,
                            !.r = IF f.done THEN f.s ELSE ""]
    /\ UNCHANGED naRest

InitName ==
    /\ \E seeded \in BOOLEAN :
          na = [names |-> IF seeded THEN SeededNames ELSE EmptyNames,
                phase |-> "idle", calls |-> 0, arg |-> "", s |-> "", before |-> EmptyNames,
                base |-> "", trail |-> <<>>, r |-> ""]
    /\ IndexIdle
    /\ LoopIdle
    /\ EmitterIdle
    /\ LoopHeaderIdle
    /\ VariantIdle
    /\ SeqIdle
    /\ HandlesIdle
    /\ HashIdle
    /\ TypeMapIdle
    /\ GeoIdle
    /\ PathIdle
    /\ BrowserIdle
    /\ TreeIdle

NextName ==
    \/ NameCall
    \/ NameStep

\* an activation that can run does run
SpecName == InitName /\ [][NextName]_vars /\ WF_vars(NameStep)

\* the digits of the suffixes appended during the call, in order
RECURSIVE Digits(_)
Digits(q) == IF q = <<>> THEN "" ELSE ToString(Head(q)) \o Digits(Tail(q))

NameReturned == na.phase = "idle" /\ na.calls > 0

\* what holds of a call of name that returned
NameResult ==
    NameReturned =>
        /\ na.base = (IF na.arg \in {"", "_"} THEN "x" ELSE na.arg)
        /\ na.r = na.base \o Digits(na.trail)
        /\ (na.base \in DOMAIN na.before) = (na.trail # <<>>)
        /\ na.r \notin DOMAIN na.before
        /\ na.r \notin {"", "_"}
        /\ na.r \in DOMAIN na.names
        /\ na.r = name(na.before, na.arg).r
        /\ na.names = name(na.before, na.arg).names

\* C27: every call of name returns; an empty or "_" candidate is replaced by
\* the base x; the identifier returned is the base when that is unused and
\* otherwise the base followed by the counters appended while colliding, an
\* identifier that was unused; it is never empty and never "_", and it is
\* recorded in w.names.
C27_NameTerminatesWithFreshName ==
    /\ []NameResult
    /\ (na.phase = "running") ~> (na.phase = "idle")

\* a call with the placeholder that collides twice: x and x2 are in use
C27_Witness ==
    /\ NameReturned
    /\ na.arg = "_"
    /\ {"x", "x2"} \subseteq DOMAIN na.before
    /\ Len(na.trail) = 2
    /\ na.r = "x22"

---------------------------------------------------------------------------
(* fluxPath (writer.go 699-719, part_002 636-656): the file a definition   *)
(* is saved in.  Identifiers and paths are sequences of characters, so     *)
(* that two paths can be compared with their letters folded to one case.   *)

MaxDefs == 3            \* definitions declared in the package

\* the identifiers declared: one letter in both cases, and two identifiers
\* that differ in the case of a later letter only
PathNames == {<<"a">>, <<"A">>, <<"A", "b">>, <<"A", "B">>}

UpperLetters == {"A", "B"}

\* ast.IsExported: the first letter is upper case
IsExported(id) == Head(id) \in UpperLetters

\* the definitions fluxPath is called with: obj.GetName(), and for a method
\* the name of the receiver's named type
FuncDef(id)      == [kind |-> "func", name |-> id, recv |-> <<>>]
TypeDef(id)      == [kind |-> "type", name |-> id, recv |-> <<>>]
MethodDef(t, id) == [kind |-> "method", name |-> id, recv |-> t]

PathDefs ==
    {FuncDef(id) : id \in PathNames} \cup {TypeDef(id) : id \in PathNames}
        \cup {MethodDef(t, id) : t \in PathNames, id \in PathNames}

isMethod(obj) == obj.kind = "method"

\* build.Import(...).Dir of the one package
PkgDir == <<"p">>

\* filepath.Join(dir, file)
pathJoin(dir, file) == dir \o <<"/">> \o file

FluxSuffix == <<".", "f", "l", "u", "x", ".", "g", "o">>

\* name with "-" appended when it is not exported
marked(id) == IF IsExported(id) THEN id ELSE id \o <<"-">>

fluxPath(obj) ==
    LET nm0 == marked(obj.name)
        full == IF isMethod(obj) THEN marked(obj.recv) \o <<".">> \o nm0 ELSE nm0
    IN  pathJoin(PkgDir, full \o FluxSuffix)

\* a path as a case-insensitive file system compares it
foldChar(c) == IF c = "A" THEN "a" ELSE IF c = "B" THEN "b" ELSE c
Fold(p) == [i \in DOMAIN p |-> foldChar(p[i])]

\* what a Go package can declare next to ds: one object per package-level
\* identifier, methods on a declared type, one method per name and receiver
declarable(ds, d) ==
    /\ d \notin ds
    /\ d.kind \in {"func", "type"} =>
           \A e \in ds : e.kind \in {"func", "type"} => e.name # d.name
    /\ isMethod(d) =>
           /\ TypeDef(d.recv) \in ds
           /\ \A e \in ds : (isMethod(e) /\ e.recv = d.recv) => e.name # d.name

fpRest == <<ixVars, lpVars, emVars, lhVars, ndVars, sgVars, chVars, hsVars, tmVars, geoVars, naVars,
           brVars, vtVars>>

\* a definition is added to the package
PathDeclare ==
    /\ Cardinality(fp.defs) < MaxDefs
    /\ \E d \in PathDefs :
          /\ declarable(fp.defs, d)
          /\ fp' = [fp EXCEPT !.defs = @ \cup {d}]
    /\ UNCHANGED fpRest

\* a definition is saved: its file is written at fluxPath(obj)
PathSave ==
    /\ \E d \in fp.defs :
          /\ \A f \in fp.files : f.obj # d
          /\ fp' = [fp EXCEPT !.files = @ \cup {[obj |-> d, path |-> fluxPath(d)]}]
    /\ UNCHANGED fpRest

InitPath ==
    /\ fp = [defs |-> {}, files |-> {}]
    /\ IndexIdle
    /\ LoopIdle
    /\ EmitterIdle
    /\ LoopHeaderIdle
    /\ VariantIdle
    /\ SeqIdle
    /\ HandlesIdle
    /\ HashIdle
    /\ TypeMapIdle
    /\ GeoIdle
    /\ NameIdle
    /\ BrowserIdle
    /\ TreeIdle

NextPath ==
    \/ PathDeclare
    \/ PathSave

SpecPath == InitPath /\ [][NextPath]_vars

\* C28: the files of any two distinct definitions of one package have
\* paths that differ even when they are compared without regard to case.
C28_PathsDifferIgnoringCase ==
    \A f \in fp.files : \A g \in fp.files :
        f.obj # g.obj => Fold(f.path) # Fold(g.path)

\* the part of C28 the code has: the paths of distinct definitions differ
\* as written, and those of an exported and an unexported identifier with
\* the same letters differ in any case
PathsDiffer ==
    \A f \in fp.files : \A g \in fp.files :
        f.obj # g.obj =>
            /\ f.path # g.path
            /\ (IsExported(f.obj.name) # IsExported(g.obj.name)
                   /\ f.obj.kind = g.obj.kind /\ f.obj.recv = g.obj.recv)
                   => Fold(f.path) # Fold(g.path)

\* the functions Ab and AB of one package are both saved
C28_CaseOnlyWitness ==
    /\ \E f \in fp.files : f.obj = FuncDef(<<"A", "b">>)
    /\ \E g \in fp.files : g.obj = FuncDef(<<"A", "B">>)

---------------------------------------------------------------------------
(* An edit of the connection, operation by operation                       *)
(* (connectionHandle.go 35-57, 117-128, 172-183): startEditing on a        *)
(* handle, updateConnection and moveToNearestConnectablePort steps, then   *)
(* cancelEditing.  ch carries, besides the fields above,                   *)
(*   start     the ends of the connection when startEditing was called     *)
(*   by        the handle the edit was started on                          *)
(*   phase     "idle", "editing", or "cancelled" after cancelEditing       *)
(*   missed    whether an updateConnection of the edit was over no         *)
(*             connectable port                                            *)

\* the connections an edit starts on: fully connected, or new with one end
EditStarts ==
    {e \in [src : Ports \cup {NilPort}, dst : Ports \cup {NilPort}] :
        e.src # NilPort \/ e.dst # NilPort}

\* h.startEditing()
EditStart ==
    \E h \in Handles :
        /\ ch.phase # "editing"
        /\ ch.inBlk
        /\ ch' = [startEditing(ch, h) EXCEPT !.start = [src |-> ch.src, dst |-> ch.dst],
                                             !.by = h, !.phase = "editing",
                                             !.missed = FALSE]
        /\ UNCHANGED chRest

\* h.spec.updateConnection(p)
EditUpdate ==
    \E hit \in Ports \cup {NilPort}, can \in BOOLEAN :
        /\ ch.phase = "editing"
        /\ ch' = [updateConnection(ch, ch.by, hit, can)
                    EXCEPT !.missed = @ \/ hit = NilPort \/ ~can]
        /\ UNCHANGED chRest

\* h.spec.moveToNearestConnectablePort(dirKey)
EditMove ==
    \E p \in Ports \cup {NilPort} :
        /\ ch.phase = "editing"
        /\ ch' = moveToNearestConnectablePort(ch, ch.by, p)
        /\ ch' # ch
        /\ UNCHANGED chRest

\* h.cancelEditing()
EditCancel ==
    /\ ch.phase = "editing"
    /\ ch' = [cancelEditing(ch, ch.by) EXCEPT !.phase = "cancelled"]
    /\ UNCHANGED chRest

InitCancel ==
    /\ \E e \in EditStarts, first \in BOOLEAN :
          ch = [src |-> e.src, dst |-> e.dst, inBlk |-> TRUE,
                editing |-> [h \in Handles |-> FALSE],
                saved |-> [h \in Handles |-> NilPort],
                focus |-> "blk", held |-> [h \in Handles |-> 0], setFirst |-> first,
                start |-> e, by |-> "s", phase |-> "idle", missed |-> FALSE]
    /\ IndexIdle
    /\ LoopIdle
    /\ EmitterIdle
    /\ LoopHeaderIdle
    /\ VariantIdle
    /\ SeqIdle
    /\ HashIdle
    /\ TypeMapIdle
    /\ GeoIdle
    /\ NameIdle
    /\ PathIdle
    /\ BrowserIdle
    /\ TreeIdle

NextCancel ==
    \/ EditStart
    \/ EditUpdate
    \/ EditMove
    \/ EditCancel

SpecCancel == InitCancel /\ [][NextCancel]_vars

\* C29: after cancelEditing, the source and the destination of the
\* connection are the ones it had when startEditing was called, and a
\* connection that was fully connected then is still in its block.
C29_CancelRestoresConnection ==
    ch.phase = "cancelled" =>
        /\ ch.src = ch.start.src
        /\ ch.dst = ch.start.dst
        /\ (ch.start.src # NilPort /\ ch.start.dst # NilPort) => ch.inBlk

\* the part of C29 the code has: the end the handle edits is restored, and
\* the whole connection is when no updateConnection of the edit was over a
\* place with no connectable port
CancelRestoresEditedEnd ==
    ch.phase = "cancelled" =>
        /\ ch.by = "s" => ch.src = ch.start.src
        /\ ch.by = "d" => ch.dst = ch.start.dst
        /\ ~ch.editing[ch.by]
        /\ ~ch.missed =>
              /\ ch.src = ch.start.src
              /\ ch.dst = ch.start.dst
              /\ ch.inBlk = (ch.start.src # NilPort /\ ch.start.dst # NilPort)

\* an edit on the source handle was moved to another port and cancelled
C29_MovedAndCancelled ==
    /\ ch.phase = "cancelled"
    /\ ch.by = "s"
    /\ ~ch.missed
    /\ ch.start = [src |-> 1, dst |-> 2]
    /\ ch.src = 1
    /\ ch.inBlk

---------------------------------------------------------------------------
(* Editing and the keyboard focus (connectionHandle.go 35-97), over the    *)
(* events of SpecHandles.                                                  *)

\* a handle in editing mode has the keyboard focus
EditingHasFocus == \A h \in Handles : ch.editing[h] => ch.focus = h

\* stopEditing on a handle that is not editing leaves everything as it is
StopEditingIdle == \A h \in Handles : ~ch.editing[h] => stopEditing(ch, h) = ch

\* a handle that loses the keyboard focus in a step is not editing after it
FocusLossStopsEditing ==
    \A h \in Handles : (ch.focus = h /\ ch'.focus # h) => ~ch'.editing[h]

\* C30: in every reachable state a handle in editing mode holds the
\* keyboard focus, so that at most one handle is editing; a handle that
\* loses the keyboard focus is not editing afterwards; and stopEditing on a
\* handle that is not editing changes nothing.
C30_EditingHandleHoldsFocus ==
    /\ [](EditingHasFocus
            /\ Cardinality({h \in Handles : ch.editing[h]}) <= 1
            /\ StopEditingIdle)
    /\ [][FocusLossStopsEditing]_vars

\* the part of C30 the handles have whatever the gui does: at most one
\* handle is editing while the gui records the new focus last, a handle that
\* loses the focus stops editing, and stopEditing on a handle that is not
\* editing changes nothing
EditingHoldsFocusWhenSetLast ==
    /\ [](~ch.setFirst => EditingHasFocus)
    /\ [](StopEditingIdle)
    /\ [][FocusLossStopsEditing]_vars

\* a button was pressed on the destination handle while the source handle
\* was editing a connection with no destination: the block took the focus
\* inside the hand-over, and the destination handle is editing without it
C30_EditingWithoutFocus ==
    /\ ch.setFirst
    /\ ch.editing["d"]
    /\ ch.focus = "blk"
    /\ ~ch.editing["s"]
    /\ ~ch.inBlk

---------------------------------------------------------------------------
(* The node browser (unnamed/part_000): its text field gets the key        *)
(* events while it has the keyboard focus.  br is the record               *)
(*   finished   b.finished                                                 *)
(*   closed     whether b.Close() has taken the browser out of its parent  *)
(*   focus      whether the text field has the keyboard focus              *)
(*   unfocus    whether closing a view takes the keyboard focus from the   *)
(*              views in it (the gui package decides; it is not changed    *)
(*              by the browser)                                            *)
(*   newInfo    the kind of b.newInfo, "none" for nil                      *)
(*   cur        the kind of b.currentInfo(), "none" for nil                *)
(*   path       the kinds of b.path, the innermost first; the last one is  *)
(*              rootPkg                                                    *)
(*   log        the signals emitted, in order                              *)

MaxDepth == 3           \* len(b.path)
MaxSignals == 3         \* signals emitted in one session

InfoKinds == {"pkg", "type", "func"}

RECURSIVE closeBrowser(_)
RECURSIVE cancel(_)

\* b.Close(): the browser leaves its parent; where that takes the focus from
\* the text field, LostKeyboardFocus (254) runs
closeBrowser(b) ==
    IF b.unfocus /\ b.focus
    THEN cancel([b EXCEPT !.closed = TRUE, !.focus = FALSE])
    ELSE [b EXCEPT !.closed = TRUE]

\* browser.cancel (69-75)
cancel(b) ==
    IF ~b.finished
    THEN [closeBrowser([b EXCEPT !.finished = TRUE]) EXCEPT !.log = Append(@, "canceled")]
    ELSE b

\* what an info of kind k can hold: a package holds infos of every kind, and
\* the one info that is added in a named type is a function (350-357)
ChildKinds(k) == IF k = "pkg" THEN InfoKinds ELSE {"func"}

\* the kind of the first of the infos an info of kind k holds, "none" where
\* it holds no info
FirstKinds(k) == ChildKinds(k) \cup {"none"}

\* case KeyRight (321-338): a package or a named type is entered; SetText("")
\* (337) makes every info of it a candidate and the first one current
\* (181-194): first is its kind, "none" where there is no info
keyRight(b, first) ==
    IF b.newInfo = "none" /\ b.cur \in {"pkg", "type"}
    THEN [b EXCEPT !.path = <<b.cur>> \o @, !.cur = first]
    ELSE b

\* case KeyEnter (289-320): existing says that the new info has the name of
\* the current one; found is the current info once a new info was added
\* (308-311); first is the first info of the package that Enter enters
keyEnter(b, existing, found, first) ==
    LET info == IF b.newInfo = "none" \/ existing THEN b.cur ELSE b.newInfo
        b1 == [b EXCEPT !.newInfo = "none",
                        !.cur = IF b.newInfo # "none" /\ ~existing THEN found ELSE @]
    IN  IF info # "pkg"
        THEN [closeBrowser(b1) EXCEPT !.finished = TRUE, !.log = Append(@, "accepted")]
        ELSE keyRight(b1, first)

brRest == <<ixVars, lpVars, emVars, lhVars, ndVars, sgVars, chVars, hsVars, tmVars, geoVars,
            naVars, fpVars, vtVars>>

\* the text field gets a key while it has the keyboard focus
BrCanKey == br.focus /\ Len(br.log) < MaxSignals

\* the current info of a list of infos that is empty or not as that of cur
OtherCur(cur) == IF cur = "none" THEN {"none"} ELSE ChildKinds(Head(br.path))

BrKeyEnter ==
    /\ BrCanKey
    /\ \E existing \in BOOLEAN :
          /\ existing => (br.newInfo # "none" /\ br.cur # "none")
          /\ \E found \in IF br.newInfo # "none" /\ ~existing
                          THEN {br.newInfo} \cup ChildKinds(Head(br.path)) \cup {"none"}
                          ELSE {br.cur} :
                \E first \in FirstKinds(found) :
                   /\ br' = keyEnter(br, existing, found, first)
                   /\ Len(br'.path) <= MaxDepth
    /\ UNCHANGED brRest

\* case KeyEsc (339-346)
BrKeyEsc ==
    /\ BrCanKey
    /\ \/ br.newInfo = "none" /\ br' = cancel(br)
       \/ /\ br.newInfo # "none"
          /\ \E k \in OtherCur(br.cur) : br' = [br EXCEPT !.newInfo = "none", !.cur = k]
    /\ UNCHANGED brRest

\* case KeyUp, KeyDown (258-267): another info of the list becomes current
BrKeySelect ==
    /\ BrCanKey
    /\ br.newInfo = "none"
    /\ br.cur # "none"
    /\ \E k \in ChildKinds(Head(br.path)) :
          /\ k # br.cur
          /\ br' = [br EXCEPT !.cur = k]
    /\ UNCHANGED brRest

\* case KeyLeft (274-288): the info that is left becomes the current one
BrKeyLeft ==
    /\ BrCanKey
    /\ Len(br.path) > 1
    /\ br.newInfo = "none"
    /\ br' = [br EXCEPT !.path = Tail(@), !.cur = Head(br.path)]
    /\ UNCHANGED brRest

\* case KeyRight (321-338)
BrKeyRight ==
    /\ BrCanKey
    /\ Len(br.path) < MaxDepth
    /\ \E first \in FirstKinds(br.cur) : br' = keyRight(br, first)
    /\ br' # br
    /\ UNCHANGED brRest

\* default (347-364): Ctrl with a digit starts a new package or function; in
\* a named type a function only.  SetText("") (364) makes the info at the
\* place of the new one the current one
BrKeyNew ==
    /\ BrCanKey
    /\ br.newInfo = "none"
    /\ \E k \in {"pkg", "func"} :
          /\ Head(br.path) = "pkg" \/ k = "func"
          /\ \E c \in OtherCur(br.cur) : br' = [br EXCEPT !.newInfo = k, !.cur = c]
    /\ UNCHANGED brRest

\* another view takes the keyboard focus: LostKeyboardFocus (254)
BrFocusLost ==
    /\ br.focus
    /\ br' = cancel([br EXCEPT !.focus = FALSE])
    /\ UNCHANGED brRest

InitBrowser ==
    /\ \E u \in BOOLEAN, k \in InfoKinds \cup {"none"} :
          br = [finished |-> FALSE, closed |-> FALSE, focus |-> TRUE, unfocus |-> u,
                newInfo |-> "none", cur |-> k, path |-> <<"pkg">>, log |-> <<>>]
    /\ IndexIdle
    /\ LoopIdle
    /\ EmitterIdle
    /\ LoopHeaderIdle
    /\ VariantIdle
    /\ SeqIdle
    /\ HandlesIdle
    /\ HashIdle
    /\ TypeMapIdle
    /\ GeoIdle
    /\ NameIdle
    /\ PathIdle
    /\ TreeIdle

NextBrowser ==
    \/ BrKeyEnter
    \/ BrKeyEsc
    \/ BrKeySelect
    \/ BrKeyLeft
    \/ BrKeyRight
    \/ BrKeyNew
    \/ BrFocusLost

SpecBrowser == InitBrowser /\ [][NextBrowser]_vars

\* C31: over any sequence of key events and focus changes the accepted and
\* canceled signals are emitted at most once in total, and once the browser
\* is finished no further signal is emitted.
C31_OneOutcome ==
    /\ [](Len(br.log) <= 1)
    /\ [][br.finished => br'.log = br.log]_vars

\* the part of C31 the code has: canceled is emitted at most once and only
\* as the first signal, a finished browser emits no canceled, and a session
\* has an outcome exactly when the browser is finished
CanceledOnce ==
    /\ \A i \in DOMAIN br.log : br.log[i] = "canceled" => i = 1
    /\ br.finished = (br.log # <<>>)
    /\ br.finished = br.closed

\* Enter on a function, with a close that takes the focus from the text field
C31_AcceptAfterCancel == br.log = <<"canceled", "accepted">>

---------------------------------------------------------------------------
(* The view tree (unnamed/part_001 81-129).  vt is the record              *)
(*   parent     for each view, its parent or "nil"                         *)
(*   children   for each view, its children list                           *)
(*   removeAll  whether util.SliceRemove takes out every occurrence of the *)
(*              value or the first one only                                *)
(*   misused    whether Remove was called on a view that was not the       *)
(*              parent of its argument                                     *)
(*   last       the last Raise or Lower: the call, its argument, the       *)
(*              parent and its children list before the call               *)

MaxChildren == 2        \* len(v.children)

Views == {"a", "b", "c"}
NoView == "nil"

\* whether u occurs in the list s, and how often
occurs(s, u) == \E i \in DOMAIN s : s[i] = u
count(s, u) == Cardinality({i \in DOMAIN s : s[i] = u})

\* the list s without its element at i
without(s, i) == SubSeq(s, 1, i - 1) \o SubSeq(s, i + 1, Len(s))

\* util.SliceRemove(&s, u)
RECURSIVE SliceRemove(_, _, _)
SliceRemove(s, u, all) ==
    IF ~occurs(s, u) THEN s
    ELSE LET i == CHOOSE k \in DOMAIN s : s[k] = u /\ \A j \in 1..(k - 1) : s[j] # u
         IN  IF all THEN SliceRemove(without(s, i), u, all) ELSE without(s, i)

\* ViewBase.Remove (92-96)
Remove(t, v, u) ==
    [t EXCEPT !.children[v] = SliceRemove(@, u, t.removeAll),
              !.parent[u] = NoView]

\* ViewBase.Add (84-91)
Add(t, v, u) ==
    LET t1 == IF t.parent[u] # NoView THEN Remove(t, t.parent[u], u) ELSE t
    IN  [t1 EXCEPT !.children[v] = Append(@, u), !.parent[u] = v]

\* ViewBase.Close (97-101)
Close(t, v) == IF t.parent[v] # NoView THEN Remove(t, t.parent[v], v) ELSE t

vtRest == <<ixVars, lpVars, emVars, lhVars, ndVars, sgVars, chVars, hsVars, tmVars, geoVars,
            naVars, fpVars, brVars>>

NoCall == [op |-> "none", v |-> NoView, parent |-> NoView, before |-> <<>>]

ViewAdd ==
    \E v \in Views, u \in Views :
        /\ Len(vt.children[v]) < MaxChildren
        /\ vt' = [Add(vt, v, u) EXCEPT !.last = NoCall]
        /\ UNCHANGED vtRest

ViewRemove ==
    \E v \in Views, u \in Views :
        /\ vt' = [Remove(vt, v, u) EXCEPT !.misused = @ \/ vt.parent[u] # v,
                                          !.last = NoCall]
        /\ vt' # vt
        /\ UNCHANGED vtRest

ViewClose ==
    \E v \in Views :
        /\ vt.parent[v] # NoView
        /\ vt' = [Close(vt, v) EXCEPT !.last = NoCall]
        /\ UNCHANGED vtRest

InitTree ==
    /\ \E all \in BOOLEAN :
          vt = [parent |-> [v \in Views |-> NoView], children |-> [v \in Views |-> <<>>],
                removeAll |-> all, misused |-> FALSE, last |-> NoCall]
    /\ IndexIdle
    /\ LoopIdle
    /\ EmitterIdle
    /\ LoopHeaderIdle
    /\ VariantIdle
    /\ SeqIdle
    /\ HandlesIdle
    /\ HashIdle
    /\ TypeMapIdle
    /\ GeoIdle
    /\ NameIdle
    /\ PathIdle
    /\ BrowserIdle

NextTree ==
    \/ ViewAdd
    \/ ViewRemove
    \/ ViewClose

SpecTree == InitTree /\ [][NextTree]_vars

\* u is a child of v exactly when v is u's parent, and occurs once then
TreeConsistent ==
    \A u \in Views : \A v \in Views :
        /\ occurs(vt.children[v], u) = (vt.parent[u] = v)
        /\ count(vt.children[v], u) <= 1

\* C32: under any sequence of Add, Remove and Close calls, u occurs in v's
\* children list exactly when Parent(u) is v, it occurs at most once in it,
\* and no view is in the children lists of two views.
C32_TreeConsistent ==
    /\ TreeConsistent
    /\ \A u \in Views :
          Cardinality({v \in Views : occurs(vt.children[v], u)}) <= 1

\* the part of C32 the code has: the tree is consistent as long as Remove
\* was only called on the parent of its argument
ConsistentUnlessMisused == ~vt.misused => C32_TreeConsistent

\* Remove was called on a view other than the parent, and the child was
\* added to another view afterwards: it is in two children lists
C32_TwoParents ==
    /\ occurs(vt.children["a"], "c")
    /\ occurs(vt.children["b"], "c")

---------------------------------------------------------------------------
(* Raise and Lower (unnamed/part_001 106-129).  Both build the new         *)
(* children list with append on slices of the old one, which share its     *)
(* backing array: a slice is the record [a, off, len] of the array, the    *)
(* offset of its first element and its length; its capacity is what is     *)
(* left of the array after the offset.                                     *)

MaxSpare == 2           \* cap(p.children) - len(p.children)

\* the views of the reordering: a parent and three children
OrderViews == {"a", "b", "c", "d"}

\* the elements of a slice
elems(s) == SubSeq(s.a, s.off + 1, s.off + s.len)

\* s[lo:hi]
reslice(s, lo, hi) == [a |-> s.a, off |-> s.off + lo, len |-> hi - lo]

\* append(s, vals...): in place when the capacity of s allows it, which
\* overwrites what follows s in the array; otherwise in a new array
goAppend(s, vals) ==
    IF s.off + s.len + Len(vals) <= Len(s.a)
    THEN [a |-> [k \in 1..Len(s.a) |->
                    IF k > s.off + s.len /\ k <= s.off + s.len + Len(vals)
                    THEN vals[k - s.off - s.len] ELSE s.a[k]],
          off |-> s.off, len |-> s.len + Len(vals)]
    ELSE [a |-> elems(s) \o vals, off |-> 0, len |-> s.len + Len(vals)]

\* the slice p.children: the list, with spare places after it
childrenSlice(list, spare) ==
    [a |-> list \o [k \in 1..spare |-> NoView], off |-> 0, len |-> Len(list)]

\* where range finds view in the list: the first i with list[i] = v, or 0
indexOf(list, v) ==
    IF occurs(list, v)
    THEN CHOOSE i \in DOMAIN list : list[i] = v /\ \A j \in 1..(i - 1) : list[j] # v
    ELSE 0

\* what append(x, y...) gives when x and y are slices of one array and the
\* inner append that made y has already written into that array
appendShared(x, y) == goAppend([x EXCEPT !.a = y.a], elems(y))

\* Raise (106-117): append(append(p.children[:i], p.children[i+1:]...), view)
Raise(t, v, spare) ==
    LET p == t.parent[v]
        c == childrenSlice(t.children[p], spare)
        i == indexOf(t.children[p], v)
        rest == goAppend(reslice(c, 0, i - 1), elems(reslice(c, i, c.len)))
    IN  IF p = NoView \/ i = 0 THEN t
        ELSE [t EXCEPT !.children[p] = elems(goAppend(rest, <<v>>))]

\* Lower (118-129):
\* append(p.children[i:i+1], append(p.children[:i], p.children[i+1:]...)...)
Lower(t, v, spare) ==
    LET p == t.parent[v]
        c == childrenSlice(t.children[p], spare)
        i == indexOf(t.children[p], v)
        rest == goAppend(reslice(c, 0, i - 1), elems(reslice(c, i, c.len)))
    IN  IF p = NoView \/ i = 0 THEN t
        ELSE [t EXCEPT !.children[p] = elems(appendShared(reslice(c, i - 1, i), rest))]

OrderRaise ==
    \E v \in OrderViews, spare \in 0..MaxSpare :
        /\ vt' = [Raise(vt, v, spare)
                    EXCEPT !.last = [op |-> "Raise", v |-> v, parent |-> vt.parent[v],
                                     before |-> IF vt.parent[v] = NoView THEN <<>>
                                                ELSE vt.children[vt.parent[v]]]]
        /\ UNCHANGED vtRest

OrderLower ==
    \E v \in OrderViews, spare \in 0..MaxSpare :
        /\ vt' = [Lower(vt, v, spare)
                    EXCEPT !.last = [op |-> "Lower", v |-> v, parent |-> vt.parent[v],
                                     before |-> IF vt.parent[v] = NoView THEN <<>>
                                                ELSE vt.children[vt.parent[v]]]]
        /\ UNCHANGED vtRest

\* the lists of distinct views out of a set
RECURSIVE ListsOf(_)
ListsOf(S) ==
    {<<>>} \cup UNION {{<<u>> \o l : l \in ListsOf(S \ {u})} : u \in S}

\* the view a has some of b, c, d as its children, in some order
InitOrder ==
    /\ \E list \in ListsOf(OrderViews \ {"a"}) :
          /\ list # <<>>
          /\ vt = [parent |-> [v \in OrderViews |-> IF occurs(list, v) THEN "a" ELSE NoView],
                   children |-> [v \in OrderViews |-> IF v = "a" THEN list ELSE <<>>],
                   removeAll |-> FALSE, misused |-> FALSE, last |-> NoCall]
    /\ IndexIdle
    /\ LoopIdle
    /\ EmitterIdle
    /\ LoopHeaderIdle
    /\ VariantIdle
    /\ SeqIdle
    /\ HandlesIdle
    /\ HashIdle
    /\ TypeMapIdle
    /\ GeoIdle
    /\ NameIdle
    /\ PathIdle
    /\ BrowserIdle

NextOrder ==
    \/ OrderRaise
    \/ OrderLower

SpecOrder == InitOrder /\ [][NextOrder]_vars

\* the last call was op on a child of a list without duplicates
Reordered(op) ==
    /\ vt.last.op = op
    /\ occurs(vt.last.before, vt.last.v)
    /\ \A u \in OrderViews : count(vt.last.before, u) <= 1

\* the children list before the call, without the view the call was made on
Others == without(vt.last.before, indexOf(vt.last.before, vt.last.v))

ListNow == vt.children[vt.last.parent]

\* Raise moves the child to the last position and keeps the others in order
RaiseMovesLast == Reordered("Raise") => ListNow = Others \o <<vt.last.v>>

\* Lower moves the child to the first position and keeps the others in order
LowerMovesFirst == Reordered("Lower") => ListNow = <<vt.last.v>> \o Others

\* C33: for a child v at any position of its parent's children list, after
\* Raise(v) the list is the old one with v moved to the last position, after
\* Lower(v) the old one with v moved to the first position, and in both
\* cases no child is lost or duplicated.
C33_ReorderOnly ==
    /\ RaiseMovesLast
    /\ LowerMovesFirst
    /\ (Reordered("Raise") \/ Reordered("Lower")) =>
           \A u \in OrderViews : count(ListNow, u) = count(vt.last.before, u)

\* the part of C33 the code has: Raise as claimed, and Lower on the child
\* that is last in the list
RaiseAndLowerOfLast ==
    /\ RaiseMovesLast
    /\ (Reordered("Lower") /\ indexOf(vt.last.before, vt.last.v) = Len(vt.last.before))
           => ListNow = <<vt.last.v>> \o Others

\* Lower on the middle one of three children: the child is gone from the
\* list and its successor is there twice
C33_LoweredChildLost ==
    /\ vt.last = [op |-> "Lower", v |-> "c", parent |-> "a", before |-> <<"b", "c", "d">>]
    /\ vt.children["a"] = <<"d", "b", "d">>

---------------------------------------------------------------------------
(* Output ports dropped by type re-derivation (index.go 89-99, loop.go     *)
(* 53-60), with the connections that start at them.  For the index node    *)
(* these are ixOkConns and ixBlkConns; for the loop node lp carries,       *)
(* besides t and nouts,                                                    *)
(*   valConns   the connections whose source is inputsNode.outs[1]         *)
(*   blkConns   the connections the loop's block holds                     *)

\* loopNode.updateInputType on a node with connections: the port is taken
\* out of the node (56-57); nothing is done to its connections
loopDrop(n, c) ==
    LET n2 == loopConnsChanged([t |-> n.t, nouts |-> n.nouts], c)
    IN  [t |-> n2.t, nouts |-> n2.nouts, valConns |-> n.valConns, blkConns |-> n.blkConns]

dropRest == <<ixVars, emVars, moreVars>>

\* the loop input is connected to a source of type t, or disconnected
DropLoopInput ==
    \E c \in LoopSrcTypes \cup {NilSrc, NoConn} :
        /\ lp' = loopDrop(lp, c)
        /\ lp' # lp
        /\ UNCHANGED <<lpHist, dropRest>>

\* a consumer is connected to the value output of the loop
DropBindValue ==
    /\ lp.nouts = 2
    /\ \E id \in 1..MaxOkConns :
          /\ id \notin lp.blkConns
          /\ lp' = [lp EXCEPT !.valConns = @ \cup {id}, !.blkConns = @ \cup {id}]
    /\ UNCHANGED <<lpHist, dropRest>>

InitDrop ==
    /\ ix = newIndexNode(FALSE)
    /\ ixConn = NoConns
    /\ ixOkConns = {}
    /\ ixBlkConns = {}
    /\ ixStmt = <<>>
    /\ lp = [t |-> newLoopNode.t, nouts |-> newLoopNode.nouts, valConns |-> {}, blkConns |-> {}]
    /\ lpHist = <<>>
    /\ EmitterIdle
    /\ MoreIdle

NextDrop ==
    \/ ConnectX
    \/ DisconnectX
    \/ ConnectOk
    \/ DropLoopInput
    \/ DropBindValue

SpecDrop == InitDrop /\ [][NextDrop]_vars

\* the index node without its ok output: no connection starts at it, and the
\* block holds none of them
IndexDropRemovesConns == ~ix.ok => (ixOkConns = {} /\ ixBlkConns = {})

\* the loop node without its value output: the block holds no connection
\* that starts at it
LoopDropRemovesConns == lp.nouts = 1 => lp.blkConns \cap lp.valConns = {}

\* C34: when type re-derivation has dropped the presence output of an index
\* node or the value output of a loop node, no block holds a connection
\* whose source was that port, however many connections the port had.
C34_DroppedPortHasNoConns ==
    /\ IndexDropRemovesConns
    /\ LoopDropRemovesConns

\* the loop ranged over a slice with two consumers of the value, and its
\* input is now a channel: the value output is gone, the block holds both
\* connections
C34_DanglingValueConns ==
    /\ lp.t = Chan(TInt)
    /\ lp.nouts = 1
    /\ lp.blkConns = {1, 2}
    /\ lp.valConns = {1, 2}

============================================================================
